---- MODULE Spec2Model ----
(***************************************************************************)
(* Log validators of the read-processing pipeline (src/qc): the section    *)
(* splitters of Bwa, BaseRecalibrator, ApplyBQSR and HaploType, the        *)
(* check_log batteries, and the individual checks.                         *)
(*                                                                         *)
(* One validator instance is modelled at a time; `stage` names its class.  *)
(* A log row is abstracted by what the code reads from its text: every     *)
(* regular expression, prefix comparison and numeric extraction of the     *)
(* source is a field or an operator on the row.  Python indices are        *)
(* 0-based, sequences here are 1-based: log_file[k] of the source is       *)
(* log_file[k + 1] here.                                                   *)
(***************************************************************************)
EXTENDS Integers, Sequences, FiniteSets, TLC

VARIABLES
    stage,              \* class of the validator instance
    pc,                 \* "split" (inside split_log), "ready" (constructed), "done"
    log_file,           \* self.log_file: the rows read by read_log
    row_idx,            \* number of rows the loop of split_log has consumed
    bools,              \* the local *_bool flags of split_log
    global_flags,       \* self.global_flags
    baserecalibrator,   \* self.baserecalibrator
    applybqsr,          \* self.applybqsr
    haplotype,          \* self.haplotype
    featuremanager,     \* self.featuremanager
    progressmeter,      \* self.progressmeter
    warning,            \* self.warning
    final_section,      \* self.final_section
    process,            \* self.process (Bwa)
    mem_pestat,         \* self.mem_pestat (Bwa)
    mem_process_seqs,   \* self.mem_process_seqs (Bwa)
    log_template,       \* self.log_template
    paired,             \* self.paired
    dict_,              \* self.dict_ (Bwa)
    dups,               \* self.dups (SamSort)
    chr_count,          \* self.chr_count
    chr_time,           \* self.chr_time
    chr_reads,          \* self.chr_reads
    kwargs,             \* the keyword flags check_log was called with
    failing,            \* the checks whose condition fails on this log
    executed,           \* the checks check_log has called, in call order
    raised,             \* the exception that left the operation, or NoError
    result,             \* the value the operation returned, or None
    driver              \* the state of the batch driver (test.py), or None

vars == <<stage, pc, driver, result, log_file, row_idx, bools, global_flags, baserecalibrator,
          applybqsr, haplotype, featuremanager, progressmeter, warning,
          final_section, process, mem_pestat, mem_process_seqs, log_template,
          paired, dict_, dups, chr_count, chr_time, chr_reads, kwargs, failing,
          executed, raised>>

sectionVars == <<global_flags, baserecalibrator, applybqsr, haplotype,
                 featuremanager, progressmeter, warning, final_section,
                 process, mem_pestat, mem_process_seqs>>

statVars == <<chr_count, chr_time, chr_reads>>

checkLogVars == <<kwargs, failing, executed>>

NoError == [kind |-> "none"]

None == "None"

\* ---------------------------------------------------------------- bounds

MaxLogLen == 3

\* ------------------------------------------------------------ python lists

\* list[-n:]
LastRows(list, n) ==
    IF Len(list) <= n THEN list ELSE SubSeq(list, Len(list) - n + 1, Len(list))

\* list[a:b] for 0 <= a and b counted from the front (0-based, b excluded)
Slice(list, a, b) ==
    IF b <= a THEN <<>> ELSE SubSeq(list, a + 1, IF b > Len(list) THEN Len(list) ELSE b)

Range(list) == {list[k] : k \in 1..Len(list)}

\* ------------------------------------------------------------- log rows
(***************************************************************************)
(* A row of a GATK or bwa log, as the splitters see it:                    *)
(*   no      position of the row in the log (two rows of equal text are    *)
(*           still two list entries),                                      *)
(*   opener  row[:-1] == '[Global flags]',                                 *)
(*   date    where r'\d+-\d+-\d+' occurs in the row: "col0" at the start,  *)
(*           "inside" later but inside row[:10], "none" not in row[:10],   *)
(*   marks   the marker texts the row contains,                            *)
(*   prefix  the bwa tag the row starts with.                              *)
(***************************************************************************)
PlainRow == [opener |-> FALSE, date |-> "none", marks |-> {}, prefix |-> "none"]

OpenerRow == [PlainRow EXCEPT !.opener = TRUE]

DatedRows == {[PlainRow EXCEPT !.date = d] : d \in {"col0", "inside"}}

MarkedRows(single, double) ==
    {[PlainRow EXCEPT !.marks = {m}] : m \in single}
        \cup {[PlainRow EXCEPT !.marks = {m, n}] : m, n \in double}

GatkStages == {"BaseRecalibrator", "ApplyBQSR", "HaploType"}

SplitStages == GatkStages \cup {"Bwa"}

RowKinds(st) ==
    CASE st = "BaseRecalibrator" ->
            {PlainRow, OpenerRow} \cup DatedRows
                \cup MarkedRows({"engine", "filtered", "ProgressMeter", "FeatureManager"},
                                {"engine", "ProgressMeter", "FeatureManager"})
      [] st = "ApplyBQSR" ->
            {PlainRow, OpenerRow} \cup DatedRows
                \cup MarkedRows({"engine", "ProgressMeter", "FeatureManager"},
                                {"engine", "ProgressMeter", "FeatureManager"})
      [] st = "HaploType" ->
            {PlainRow}
                \cup MarkedRows({"engine", "filtered", "ProgressMeter", "FeatureManager", "WARN"},
                                {"engine", "ProgressMeter", "FeatureManager", "WARN"})
      [] st = "Bwa" ->
            {[PlainRow EXCEPT !.prefix = p] :
                p \in {"[M::process]", "[M::mem_pestat]", "[M::mem_process_seqs]", "none"}}

Numbered(kinds) ==
    [k \in 1..Len(kinds) |->
        [no |-> k, opener |-> kinds[k].opener, date |-> kinds[k].date,
         marks |-> kinds[k].marks, prefix |-> kinds[k].prefix]]

Logs(st) ==
    UNION {{Numbered(f) : f \in [1..n -> RowKinds(st)]} : n \in 0..MaxLogLen}

\* ------------------------------------------------- the marker predicates

\* row[:-1] == '[Global flags]'
IsGlobalFlagsOpener(row) == row.opener

\* bool(re.search(r'(\d+-\d+-\d+)', row[:10])): a search, not anchored
DateSearch(row) == row.date \in {"col0", "inside"}

\* re.search(r'INFO  BaseRecalibrat' | r'INFO  ApplyBQSR' | r'INFO  HaplotypeCaller', row)
EngineSearch(row) == "engine" \in row.marks

\* re.search(r'read\(s\) filtered by:', row)
FilteredSearch(row) == "filtered" \in row.marks

\* re.search(r'INFO  ProgressMeter', row)
ProgressMeterSearch(row) == "ProgressMeter" \in row.marks

\* re.search(r'INFO  FeatureManager', row)
FeatureManagerSearch(row) == "FeatureManager" \in row.marks

\* re.search(r' WARN ', row)
WarnSearch(row) == "WARN" \in row.marks

NoBools ==
    [global_flags_bool |-> FALSE, engine_bool |-> FALSE, featuremanager_bool |-> FALSE,
     progressmeter_bool |-> FALSE, warn_bool |-> FALSE]

(***************************************************************************)
(* The run of `if` statements that opens each loop body: a flag is set     *)
(* when its marker is found and is otherwise left as it was.  engine_bool  *)
(* is baserecalibrator_bool, applybqsr_bool or haplotype_bool.             *)
(***************************************************************************)
SetBools(st, b, row) ==
    [global_flags_bool |->
        IF st # "HaploType" /\ DateSearch(row) THEN FALSE ELSE b.global_flags_bool,
     engine_bool |->
        b.engine_bool \/ EngineSearch(row) \/ (st # "ApplyBQSR" /\ FilteredSearch(row)),
     progressmeter_bool |-> b.progressmeter_bool \/ ProgressMeterSearch(row),
     featuremanager_bool |-> b.featuremanager_bool \/ FeatureManagerSearch(row),
     warn_bool |-> b.warn_bool \/ (st = "HaploType" /\ WarnSearch(row))]

\* the same chain written with `if` in place of `elif`
RouteEveryFlag(st, b) ==
    {s \in {"global_flags", "engine", "featuremanager", "progressmeter", "warning"} :
        \/ s = "global_flags" /\ b.global_flags_bool
        \/ s = "engine" /\ b.engine_bool
        \/ s = "featuremanager" /\ b.featuremanager_bool
        \/ s = "progressmeter" /\ b.progressmeter_bool
        \/ s = "warning" /\ b.warn_bool}

\* the chain with the progress-meter branch tested before the feature-manager branch
RouteProgressMeterFirst(st, b) ==
    IF b.global_flags_bool THEN {"global_flags"}
    ELSE IF b.engine_bool THEN {"engine"}
    ELSE IF b.progressmeter_bool THEN {"progressmeter"}
    ELSE IF b.featuremanager_bool THEN {"featuremanager"}
    ELSE IF b.warn_bool THEN {"warning"}
    ELSE {}

(***************************************************************************)
(* The if / elif chain that closes each loop body: the sections the row is *)
(* appended to (one at most), from the flags as SetBools left them.        *)
(***************************************************************************)
Route(st, b) ==
    IF b.global_flags_bool THEN {"global_flags"}
    ELSE IF b.engine_bool THEN {"engine"}
    ELSE IF b.featuremanager_bool THEN {"featuremanager"}
    ELSE IF b.progressmeter_bool THEN {"progressmeter"}
    ELSE IF b.warn_bool THEN {"warning"}
    ELSE {}

\* the flag of a single-line section is cleared in the branch that appended
ClearBools(b, dest) ==
    [global_flags_bool |-> b.global_flags_bool,
     engine_bool |-> b.engine_bool /\ "engine" \notin dest,
     featuremanager_bool |-> b.featuremanager_bool /\ "featuremanager" \notin dest,
     progressmeter_bool |-> b.progressmeter_bool /\ "progressmeter" \notin dest,
     warn_bool |-> b.warn_bool /\ "warning" \notin dest]

AppendIf(list, cond, row) == IF cond THEN Append(list, row) ELSE list

\* a chain whose first test is met by every row that names process
RouteBwaLoose(row) ==
    IF row.prefix \in {"[M::process]", "[M::mem_process_seqs]"} THEN {"process"}
    ELSE IF row.prefix = "[M::mem_pestat]" THEN {"mem_pestat"}
    ELSE {}

\* the bwa chain: the section whose prefix the row starts with
RouteBwa(row) ==
    IF row.prefix = "[M::process]" THEN {"process"}
    ELSE IF row.prefix = "[M::mem_pestat]" THEN {"mem_pestat"}
    ELSE IF row.prefix = "[M::mem_process_seqs]" THEN {"mem_process_seqs"}
    ELSE {}

EngineSection(st) ==
    CASE st = "BaseRecalibrator" -> "baserecalibrator"
      [] st = "ApplyBQSR" -> "applybqsr"
      [] st = "HaploType" -> "haplotype"

\* what the variables outside the splitter hold while a splitter is studied
IdleChecks ==
    /\ log_template = <<>>
    /\ paired = FALSE
    /\ dict_ = None
    /\ dups = None
    /\ chr_count = <<>>
    /\ chr_time = <<>>
    /\ chr_reads = <<>>
    /\ kwargs = {}
    /\ failing = {}
    /\ executed = <<>>
    /\ raised = NoError

EmptySections ==
    /\ global_flags = <<>>
    /\ baserecalibrator = <<>>
    /\ applybqsr = <<>>
    /\ haplotype = <<>>
    /\ featuremanager = <<>>
    /\ progressmeter = <<>>
    /\ warning = <<>>
    /\ final_section = None
    /\ process = <<>>
    /\ mem_pestat = <<>>
    /\ mem_process_seqs = <<>>

\* __init__ up to the call of split_log: the log is read, the sections are empty
InitSplit ==
    /\ stage \in SplitStages
    /\ pc = "split"
    /\ log_file \in Logs(stage)
    /\ row_idx = 0
    /\ bools = NoBools
    /\ EmptySections
    /\ IdleChecks
    /\ result = None
    /\ driver = None

notSplitVars == <<stage, driver, result, log_file, log_template, paired, dict_, dups, chr_count,
                  chr_time, chr_reads, kwargs, failing, executed, raised>>

\* one pass of the loop body of a GATK splitter on `row`
GatkLoopBody(st, row) ==
    IF st # "HaploType" /\ IsGlobalFlagsOpener(row)
    THEN /\ bools' = [bools EXCEPT !.global_flags_bool = TRUE]
         /\ UNCHANGED <<global_flags, baserecalibrator, applybqsr, haplotype,
                        featuremanager, progressmeter, warning>>
    ELSE LET b == SetBools(st, bools, row)
             dest == Route(st, b)
         IN /\ global_flags' = AppendIf(global_flags, "global_flags" \in dest, row)
            /\ baserecalibrator' =
                 AppendIf(baserecalibrator, st = "BaseRecalibrator" /\ "engine" \in dest, row)
            /\ applybqsr' = AppendIf(applybqsr, st = "ApplyBQSR" /\ "engine" \in dest, row)
            /\ haplotype' = AppendIf(haplotype, st = "HaploType" /\ "engine" \in dest, row)
            /\ featuremanager' = AppendIf(featuremanager, "featuremanager" \in dest, row)
            /\ progressmeter' = AppendIf(progressmeter, "progressmeter" \in dest, row)
            /\ warning' = AppendIf(warning, "warning" \in dest, row)
            /\ bools' = ClearBools(b, dest)

BaseRecalibrator_split_log ==
    /\ stage = "BaseRecalibrator" /\ pc = "split"
    /\ \/ /\ row_idx < Len(log_file)
          /\ GatkLoopBody(stage, log_file[row_idx + 1])
          /\ row_idx' = row_idx + 1
          /\ UNCHANGED <<pc, final_section>>
       \/ /\ row_idx = Len(log_file)
          /\ final_section' = LastRows(log_file, 11)
          /\ pc' = "ready"
          /\ UNCHANGED <<row_idx, bools, global_flags, baserecalibrator, applybqsr,
                         haplotype, featuremanager, progressmeter, warning>>
    /\ UNCHANGED <<process, mem_pestat, mem_process_seqs>>
    /\ UNCHANGED notSplitVars

ApplyBQSR_split_log ==
    /\ stage = "ApplyBQSR" /\ pc = "split"
    /\ \/ /\ row_idx < Len(log_file)
          /\ GatkLoopBody(stage, log_file[row_idx + 1])
          /\ row_idx' = row_idx + 1
          /\ UNCHANGED <<pc, final_section>>
       \/ /\ row_idx = Len(log_file)
          /\ final_section' = LastRows(log_file, 9)
          /\ pc' = "ready"
          /\ UNCHANGED <<row_idx, bools, global_flags, baserecalibrator, applybqsr,
                         haplotype, featuremanager, progressmeter, warning>>
    /\ UNCHANGED <<process, mem_pestat, mem_process_seqs>>
    /\ UNCHANGED notSplitVars

HaploType_split_log ==
    /\ stage = "HaploType" /\ pc = "split"
    /\ \/ /\ row_idx < Len(log_file)
          /\ GatkLoopBody(stage, log_file[row_idx + 1])
          /\ row_idx' = row_idx + 1
          /\ UNCHANGED pc
       \/ /\ row_idx = Len(log_file)
          /\ pc' = "ready"
          /\ UNCHANGED <<row_idx, bools, global_flags, baserecalibrator, applybqsr,
                         haplotype, featuremanager, progressmeter, warning>>
    /\ UNCHANGED <<final_section, process, mem_pestat, mem_process_seqs>>
    /\ UNCHANGED notSplitVars

Bwa_split_log ==
    /\ stage = "Bwa" /\ pc = "split"
    /\ \/ /\ row_idx < Len(log_file)
          /\ LET row == log_file[row_idx + 1]
                 dest == RouteBwa(row)
             IN /\ process' = AppendIf(process, "process" \in dest, row)
                /\ mem_pestat' = AppendIf(mem_pestat, "mem_pestat" \in dest, row)
                /\ mem_process_seqs' =
                     AppendIf(mem_process_seqs, "mem_process_seqs" \in dest, row)
          /\ row_idx' = row_idx + 1
          /\ UNCHANGED pc
       \/ /\ row_idx = Len(log_file)
          /\ pc' = "ready"
          /\ UNCHANGED <<row_idx, process, mem_pestat, mem_process_seqs>>
    /\ UNCHANGED <<bools, global_flags, baserecalibrator, applybqsr, haplotype,
                   featuremanager, progressmeter, warning, final_section>>
    /\ UNCHANGED notSplitVars

\* ------------------------------------------------------ splitter claims

MarkerSections ==
    global_flags \o baserecalibrator \o applybqsr \o haplotype \o featuremanager
        \o progressmeter \o warning \o process \o mem_pestat \o mem_process_seqs

Consumed == {log_file[k] : k \in 1..row_idx}

\* C1: every log row is appended to at most one marker-driven section and at
\* most once there, so the sections never hold more rows than the loop has
\* consumed, and never more than the log has.
C1_NoRowCountedTwice ==
    /\ \A k \in 1..Len(MarkerSections) : MarkerSections[k] \in Consumed
    /\ \A j, k \in 1..Len(MarkerSections) : j # k => MarkerSections[j] # MarkerSections[k]
    /\ Len(MarkerSections) <= row_idx
    /\ row_idx <= Len(log_file)

\* C1 witness: a finished split in which a row with two markers was captured
\* and another row was captured too.
C1_Witness ==
    /\ pc = "ready"
    /\ Len(MarkerSections) >= 2
    /\ \E k \in 1..Len(MarkerSections) : Cardinality(MarkerSections[k].marks) = 2

EngineRows == baserecalibrator \o applybqsr \o haplotype

\* C2 (as stated): every row held in featuremanager, progressmeter, warning
\* or the stage-engine section contains the marker of that section.
C2_SectionRowsCarryMarker ==
    stage \in GatkStages =>
        /\ \A k \in 1..Len(featuremanager) : FeatureManagerSearch(featuremanager[k])
        /\ \A k \in 1..Len(progressmeter) : ProgressMeterSearch(progressmeter[k])
        /\ \A k \in 1..Len(warning) : WarnSearch(warning[k])
        /\ \A k \in 1..Len(EngineRows) :
              EngineSearch(EngineRows[k]) \/ FilteredSearch(EngineRows[k])

\* the markers of a row that the splitter of the stage searches for
StageMarks(st, row) ==
    {m \in row.marks :
        /\ m = "filtered" => st # "ApplyBQSR"
        /\ m = "WARN" => st = "HaploType"}

\* the section a marker opens
SectionOf(m) ==
    CASE m \in {"engine", "filtered"} -> "engine"
      [] m = "ProgressMeter" -> "progressmeter"
      [] m = "FeatureManager" -> "featuremanager"
      [] m = "WARN" -> "warning"

Holds(section) ==
    CASE section = "engine" -> Range(EngineRows)
      [] section = "featuremanager" -> Range(featuremanager)
      [] section = "progressmeter" -> Range(progressmeter)
      [] section = "warning" -> Range(warning)

\* the precedence order as the specification words it
StatedOrder == <<"engine", "filtered", "ProgressMeter", "FeatureManager", "WARN">>

FirstIn(order, marks) ==
    order[CHOOSE k \in 1..Len(order) :
            /\ order[k] \in marks
            /\ \A j \in 1..(k - 1) : order[j] \notin marks]

\* C3 (as stated): a consumed row that matches more than one marker while the
\* global-flags section is not active is held by the section of its first
\* marker in the order engine, filter summary, progress meter, feature
\* manager, warning.
C3_StatedPrecedence ==
    stage \in GatkStages =>
        \A row \in Consumed :
            (Cardinality(StageMarks(stage, row)) > 1 /\ row \notin Range(global_flags))
                => row \in Holds(SectionOf(FirstIn(StatedOrder, StageMarks(stage, row))))

\* the order of the branches of the elif chain
SectionRank(section) ==
    CASE section = "engine" -> 1
      [] section = "featuremanager" -> 2
      [] section = "progressmeter" -> 3
      [] section = "warning" -> 4

RankedSections == {"engine", "featuremanager", "progressmeter", "warning"}

Grows(section) ==
    CASE section = "engine" ->
            Len(baserecalibrator') + Len(applybqsr') + Len(haplotype')
                = Len(EngineRows) + 1
      [] section = "featuremanager" -> Len(featuremanager') = Len(featuremanager) + 1
      [] section = "progressmeter" -> Len(progressmeter') = Len(progressmeter) + 1
      [] section = "warning" -> Len(warning') = Len(warning) + 1

NothingPending ==
    /\ ~bools.engine_bool
    /\ ~bools.featuremanager_bool
    /\ ~bools.progressmeter_bool
    /\ ~bools.warn_bool

\* C3 (amended): a row consumed while the global-flags section is not active
\* and matching at least one marker goes to the section of its first marker
\* in the order stage engine (engine or filter-summary marker), feature
\* manager, progress meter, warning, or to an earlier section of that order
\* whose flag an earlier row left set; with no flag left set it goes to the
\* section of its first marker exactly.
C3_RoutingStep ==
    LET row == log_file[row_idx + 1]
        marks == StageMarks(stage, row)
        first == CHOOSE s \in RankedSections :
                    /\ \E m \in marks : SectionOf(m) = s
                    /\ \A m \in marks : SectionRank(SectionOf(m)) >= SectionRank(s)
    IN (/\ stage \in GatkStages
        /\ row_idx' = row_idx + 1
        /\ marks # {}
        /\ Len(global_flags') = Len(global_flags))
       => /\ \E s \in RankedSections : SectionRank(s) <= SectionRank(first) /\ Grows(s)
          /\ NothingPending => Grows(first)

C3_CodePrecedence == [][C3_RoutingStep]_vars

\* C3 witness: a row matching the progress-meter and the feature-manager
\* marker has been routed, to the feature-manager section.
C3_Witness ==
    /\ stage \in GatkStages
    /\ \E k \in 1..Len(featuremanager) :
          {"ProgressMeter", "FeatureManager"} \subseteq featuremanager[k].marks

\* C4 (as stated): after the split, global_flags holds exactly the rows that
\* follow a '[Global flags]' opener with no row starting with a date stamp at
\* column 0 in between (the closing row included in "between"), openers
\* themselves excepted.
C4_GlobalFlagsBetweenOpenerAndDate ==
    (stage \in {"BaseRecalibrator", "ApplyBQSR"} /\ pc = "ready") =>
        \A k \in 1..Len(log_file) :
            log_file[k] \in Range(global_flags)
                <=> /\ ~log_file[k].opener
                    /\ \E j \in 1..(k - 1) :
                          /\ log_file[j].opener
                          /\ \A m \in (j + 1)..k : log_file[m].date # "col0"


NextSplit ==
    \/ BaseRecalibrator_split_log
    \/ ApplyBQSR_split_log
    \/ HaploType_split_log
    \/ Bwa_split_log

SpecSplit == InitSplit /\ [][NextSplit]_vars

\* ------------------------------------------------------------ check_log
(***************************************************************************)
(* The batteries.  A step of a plan is a check method and the keyword flag *)
(* of check_log that guards its call ("always" when the call is not        *)
(* guarded); grouping methods (check_final_section, check_global_flags,    *)
(* ...) are unfolded into the checks they call, in call order.  What a     *)
(* check decides on the log is the set `failing`: the checks whose         *)
(* condition raises on this log.                                           *)
(***************************************************************************)
Call(check, flag) == [check |-> check, flag |-> flag]

BwaPlan ==
    <<Call("check_process", "check_process"),
      Call("check_mem_process_seqs", "check_mem_process_seqs"),
      Call("check_mem_pestat", "check_mem_pestat"),
      Call("check_start_statement", "check_start_statement"),
      Call("check_correct_sample", "check_correct_sample"),
      Call("check_tmp_files", "check_tmp")>>

FastqcPlan ==
    <<Call("check_lines", "check_lines"),
      Call("check_start_end", "check_start_end"),
      Call("check_folders", "check_folder"),
      Call("check_txt", "check_folder")>>

SamSortPlan ==
    <<Call("check_lines", "always"),
      Call("check_start_statement", "always"),
      Call("check_finish_statement", "always"),
      Call("check_correct_sample", "always"),
      Call("check_third_line", "always"),
      Call("check_unmated", "always"),
      Call("check_header", "always"),
      Call("check_rows", "always"),
      Call("check_table_sums", "always"),
      Call("check_removals", "always")>>

BaseRecalibratorPlan ==
    <<Call("check_running", "always"),
      Call("check_correct_sample", "always"),
      Call("check_global_flags_start", "always"),
      Call("check_final_section_success", "always"),
      Call("check_final_section_others", "always"),
      Call("check_global_flags_length", "always"),
      Call("check_global_flags_variables", "always"),
      Call("check_baserecalibrator_len", "always"),
      Call("check_baserecalibrator_engine", "always"),
      Call("check_baserecalibrator_covariates", "always"),
      Call("check_baserecalibrator_filters", "always"),
      Call("check_baserecalibrator_quantization", "always"),
      Call("check_featuremanager_files", "always"),
      Call("check_progressmeter_chromosomes", "always"),
      Call("check_progressmeter_start_end", "always"),
      Call("progressmeter_analysis", "always"),
      Call("compute_score", "score")>>

ApplyBQSRPlan ==
    <<Call("check_running", "check_running"),
      Call("check_correct_sample", "check_correct_sample"),
      Call("check_global_flags_start", "check_global_flags_start"),
      Call("check_final_section_others", "check_final_section"),
      Call("check_global_flags_length", "check_global_flags"),
      Call("check_global_flags_variables", "check_global_flags"),
      Call("check_applybqsr_engine", "check_applybqsr"),
      Call("check_applybqsr_quantization", "check_applybqsr"),
      Call("check_featuremanager_files", "check_featuremanager"),
      Call("check_progressmeter_start_end", "check_progressmeter")>>

HaploTypePlan ==
    <<Call("check_len", "always"),
      Call("check_running", "always"),
      Call("check_correct_sample", "always"),
      Call("check_haplotype_engine", "always"),
      Call("check_haplotype_filters", "always"),
      Call("check_featuremanager_files", "always"),
      Call("warning_stats", "warning_plot"),
      Call("check_progressmeter_chromosomes", "always"),
      Call("check_progressmeter_start_end", "always"),
      Call("progressmeter_analysis", "always"),
      Call("compute_score", "score")>>

CheckStages == {"Bwa", "Fastqc", "SamSort", "BaseRecalibrator", "ApplyBQSR", "HaploType"}

Plan(st) ==
    CASE st = "Bwa" -> BwaPlan
      [] st = "Fastqc" -> FastqcPlan
      [] st = "SamSort" -> SamSortPlan
      [] st = "BaseRecalibrator" -> BaseRecalibratorPlan
      [] st = "ApplyBQSR" -> ApplyBQSRPlan
      [] st = "HaploType" -> HaploTypePlan

Checks(st) == {Plan(st)[k].check : k \in 1..Len(Plan(st))}

Flags(st) == {Plan(st)[k].flag : k \in 1..Len(Plan(st))} \ {"always"}

\* a guard that lets the call through whatever the flag says
GuardIgnored(step, kw) == TRUE

\* `if <flag>:` in front of a call
Guard(step, kw) == step.flag = "always" \/ step.flag \in kw

\* the place in the plan of the call that was made last (0 before the first)
PlanPosition(plan, done) ==
    IF done = <<>> THEN 0
    ELSE CHOOSE k \in 1..Len(plan) : plan[k].check = done[Len(done)]

\* the calls of the plan after position `pos` whose guard lets them through
CallsAhead(plan, pos, kw) == {k \in (pos + 1)..Len(plan) : Guard(plan[k], kw)}

Lowest(S) == CHOOSE k \in S : \A j \in S : k <= j

\* the raise statements a call of check_log can end in: the method that holds
\* the statement and the name its message starts with (None: the method has
\* no raise statement of its own and fails with an error of Python)
Raise(method, msg) == [method |-> method, msg |-> msg]

RaisesOf(st, check) ==
    CASE check = "check_process" -> {Raise("check_num_sequence", "check_num_sequence")}
      [] check = "check_mem_process_seqs" ->
            {Raise("check_positive_nums", "check_positive_nums")}
      [] check = "check_mem_pestat" ->
            {Raise("check_not_enough_pairs", "check_not_enough_pairs"),
             Raise("check_enough_pairs", "check_enough_pairs")}
      [] check = "check_start_end" -> {Raise(check, "check_lines")}
      [] check = "check_folders" -> {Raise(check, "check_folder")}
      [] check = "check_global_flags_start" -> {Raise(check, "check_global_flags")}
      [] check = "check_baserecalibrator_covariates" ->
            {Raise(check, "check_baserecalibrator_engine")}
      [] check \in {"progressmeter_analysis", "compute_score", "warning_stats"} ->
            {Raise(check, None)}
      [] OTHER -> {Raise(check, check)}

\* a check either returns or raises
Outcome(check, fails) ==
    IF check \in fails THEN [kind |-> "Exception", check |-> check] ELSE NoError

(***************************************************************************)
(* One statement of check_log: the next call whose guard holds is made; an *)
(* exception it raises is not caught, so it leaves check_log; after the    *)
(* last call check_log returns.                                            *)
(***************************************************************************)
CheckLogStatement(st) ==
    LET plan == Plan(st)
        ahead == CallsAhead(plan, PlanPosition(plan, executed), kwargs)
    IN IF ahead = {}
       THEN /\ pc' = "done"
            /\ UNCHANGED <<executed, raised>>
       ELSE LET check == plan[Lowest(ahead)].check
                out == Outcome(check, failing)
            IN /\ executed' = Append(executed, check)
               /\ IF out = NoError THEN raised' = out
                  ELSE \E r \in RaisesOf(st, check) :
                          raised' = [kind |-> IF r.msg = None THEN "Error" ELSE out.kind,
                                     check |-> check, method |-> r.method, msg |-> r.msg]
               /\ pc' = IF out = NoError THEN "ready" ELSE "done"

MaxDisabled == 1

MaxFailing == 2

\* the subsets of S of at most n elements
RECURSIVE SmallSubsets(_, _)
SmallSubsets(S, n) ==
    IF n = 0 THEN {{}}
    ELSE LET smaller == SmallSubsets(S, n - 1)
         IN smaller \cup {T \cup {x} : T \in smaller, x \in S}

\* a constructed validator on which check_log is about to be called
InitCheckLog ==
    /\ stage \in CheckStages
    /\ pc = "ready"
    /\ log_file = <<>>
    /\ row_idx = 0
    /\ bools = NoBools
    /\ EmptySections
    /\ log_template = <<>>
    /\ paired = FALSE
    /\ dict_ = None
    /\ dups = None
    /\ chr_count = <<>>
    /\ chr_time = <<>>
    /\ chr_reads = <<>>
    /\ kwargs \in {Flags(stage) \ off : off \in SmallSubsets(Flags(stage), MaxDisabled)}
    /\ failing \in SmallSubsets(Checks(stage), MaxFailing)
    /\ executed = <<>>
    /\ raised = NoError
    /\ result = None
    /\ driver = None

notCheckLogVars ==
    <<stage, driver, result, log_file, row_idx, bools, global_flags, baserecalibrator, applybqsr,
      haplotype, featuremanager, progressmeter, warning, final_section, process,
      mem_pestat, mem_process_seqs, log_template, paired, dict_, dups, chr_count,
      chr_time, chr_reads, kwargs, failing>>

Bwa_check_log ==
    /\ stage = "Bwa" /\ pc = "ready"
    /\ CheckLogStatement("Bwa")
    /\ UNCHANGED notCheckLogVars

Fastqc_check_log ==
    /\ stage = "Fastqc" /\ pc = "ready"
    /\ CheckLogStatement("Fastqc")
    /\ UNCHANGED notCheckLogVars

SamSort_check_log ==
    /\ stage = "SamSort" /\ pc = "ready"
    /\ CheckLogStatement("SamSort")
    /\ UNCHANGED notCheckLogVars

BaseRecalibrator_check_log ==
    /\ stage = "BaseRecalibrator" /\ pc = "ready"
    /\ CheckLogStatement("BaseRecalibrator")
    /\ UNCHANGED notCheckLogVars

ApplyBQSR_check_log ==
    /\ stage = "ApplyBQSR" /\ pc = "ready"
    /\ CheckLogStatement("ApplyBQSR")
    /\ UNCHANGED notCheckLogVars

HaploType_check_log ==
    /\ stage = "HaploType" /\ pc = "ready"
    /\ CheckLogStatement("HaploType")
    /\ UNCHANGED notCheckLogVars

NextCheckLog ==
    \/ Bwa_check_log
    \/ Fastqc_check_log
    \/ SamSort_check_log
    \/ BaseRecalibrator_check_log
    \/ ApplyBQSR_check_log
    \/ HaploType_check_log

SpecCheckLog == InitCheckLog /\ [][NextCheckLog]_vars

\* the checks of the plan that the flags leave enabled, in plan order
EnabledChecks(st) ==
    LET on == SelectSeq(Plan(st), LAMBDA step : step.flag = "always" \/ step.flag \in kwargs)
    IN [k \in 1..Len(on) |-> on[k].check]

\* C5: check_log calls its enabled checks in the fixed order of the plan and
\* stops at the first one that raises: the error that leaves check_log is that
\* of the first failing enabled check, no check after it is called, and a
\* check whose flag is off is never called.
C5_FailFastInOrder ==
    LET on == EnabledChecks(stage)
        n == Len(executed)
    IN /\ n <= Len(on)
       /\ executed = SubSeq(on, 1, n)
       /\ \A k \in 1..(n - 1) : executed[k] \notin failing
       /\ raised # NoError <=> (n > 0 /\ executed[n] \in failing)
       /\ raised # NoError => (pc = "done" /\ raised.check = executed[n])
       /\ (pc = "done" /\ raised = NoError) => executed = on
       /\ \A k \in 1..Len(Plan(stage)) :
             (Plan(stage)[k].flag # "always" /\ Plan(stage)[k].flag \notin kwargs)
                 => Plan(stage)[k].check \notin Range(executed)

\* C5 witness: two enabled checks fail on the log, one check is switched off,
\* and check_log has ended with the error of the earlier failing check.
C5_Witness ==
    /\ pc = "done"
    /\ raised # NoError
    /\ \E c \in failing : c # raised.check /\ c \in Range(EnabledChecks(stage))
    /\ Len(EnabledChecks(stage)) < Len(Plan(stage))
    /\ Len(executed) > 1

\* C12 (as stated): the message of a validation error raised by a check method
\* starts with the name of that method, not with another name.
C12_MessageNamesItsCheck ==
    (raised # NoError /\ raised.kind = "Exception") => raised.msg = raised.method


\* ------------------------------------------- check_progressmeter_chromosomes
(***************************************************************************)
(* A body row of the progress-meter section, as row.split() cuts it:       *)
(*   chrom     the text before ':' of field 4,                             *)
(*   chrom_id  int of the text after ':' of field 4,                       *)
(*   minutes   float(field 5), in tenths of a minute,                      *)
(*   regions   int(field 6).                                               *)
(* The first two rows and the last row of the section are not body rows.   *)
(***************************************************************************)
chr_temp ==
    <<"chr1", "chr2", "chr3", "chr4", "chr5", "chr6", "chr7", "chr8", "chr9", "chr10",
      "chr11", "chr12", "chr13", "chr14", "chr15", "chr16", "chr17", "chr18", "chr19",
      "chr20", "chr21", "chr22", "chrX">>

\* labels a log can carry beside those of chr_temp
ExtraLabels == {"chrY", "chrM"}

KeyNames ==
    {"1", "2", "3", "4", "5", "6", "7", "8", "9", "10", "11", "12", "13", "14", "15",
     "16", "17", "18", "19", "20", "21", "22", "X", "Y", "M"}

\* re.findall(r'chr.*:', row_split[4])[0][3:-1]
ChrKey(label) == CHOOSE name \in KeyNames : "chr" \o name = label

\* a dict, in insertion order, as a list of entries
DictKeys(d) == {d[k].key : k \in 1..Len(d)}

\* d[key] += v on a defaultdict
DictAdd(d, key, v) ==
    IF key \in DictKeys(d)
    THEN [k \in 1..Len(d) |->
            IF d[k].key = key THEN [key |-> key, val |-> d[k].val + v] ELSE d[k]]
    ELSE Append(d, [key |-> key, val |-> v])

\* the list kept as it is, repeated labels included
KeepRepeats(list) == list

RECURSIVE FromKeysFrom(_, _, _)
FromKeysFrom(list, k, acc) ==
    IF k > Len(list) THEN acc
    ELSE FromKeysFrom(list, k + 1,
                      IF list[k] \in Range(acc) THEN acc ELSE Append(acc, list[k]))

\* list(dict.fromkeys(list)): the distinct entries, in order of first occurrence
FromKeys(list) == FromKeysFrom(list, 1, <<>>)

\* self.progressmeter[2:-1]
Body(section) == Slice(section, 2, Len(section) - 1)

RECURSIVE AnalysisFold(_, _, _, _)
AnalysisFold(d, rows, k, field) ==
    IF k > Len(rows) THEN d
    ELSE AnalysisFold(
            DictAdd(d, ChrKey(rows[k].chrom),
                    IF field = "count" THEN 1 ELSE rows[k][field]),
            rows, k + 1, field)

\* the fold of progressmeter_analysis (its plot is not modelled)
AnalysisEffect ==
    /\ chr_count' = AnalysisFold(chr_count, Body(progressmeter), 1, "count")
    /\ chr_time' = AnalysisFold(chr_time, Body(progressmeter), 1, "minutes")
    /\ chr_reads' = AnalysisFold(chr_reads, Body(progressmeter), 1, "regions")

Chromosome(section) == [k \in 1..Len(Body(section)) |-> Body(section)[k].chrom]

\* ','.join(filter(None, [t1 * 't1', t2 * 't2', ...]))
Tags(conds) ==
    LET names == <<"t1", "t2", "t3", "t4", "t5", "t6", "t7", "t8">>
    IN {names[k] : k \in {j \in 1..Len(conds) : conds[j]}}

\* set(chr_temp).difference(set(chromosome))
MissingChromosomes(section) == Range(chr_temp) \ Range(Chromosome(section))

notChromVars ==
    <<stage, driver, result, log_file, row_idx, bools, global_flags, baserecalibrator, applybqsr,
      haplotype, featuremanager, progressmeter, warning, final_section, process,
      mem_pestat, mem_process_seqs, log_template, paired, dict_, dups, kwargs,
      failing, executed>>

(***************************************************************************)
(* Parent.check_progressmeter_chromosomes.  Its three outcomes: it returns *)
(* (no condition holds); it raises its tagged Exception, naming after      *)
(* ' --> ' element [0] of a list built from a set of strings, whose order  *)
(* is not fixed; or the indexing [0] of that list fails, the list being    *)
(* empty.  On both raising paths progressmeter_analysis has run first.     *)
(***************************************************************************)
\* the conditions t1, t2, t3 of check_progressmeter_chromosomes
ChromosomeFaults(section) ==
    <<FromKeys(Chromosome(section)) # chr_temp,
      \E k \in 1..Len(Body(section)) : Body(section)[k].chrom_id < 0,
      \E k \in 1..Len(Body(section)) : Body(section)[k].regions < 0>>

\* the `if t1 | t2 | t3:` branch of check_progressmeter_chromosomes
ChromosomesRaise ==
    LET t == ChromosomeFaults(progressmeter)
        missing == MissingChromosomes(progressmeter)
        error == [kind |-> "Exception", check |-> "check_progressmeter_chromosomes",
                  tags |-> Tags(t), names |-> None]
    IN /\ t[1] \/ t[2] \/ t[3]
       /\ AnalysisEffect
       /\ \/ /\ ~t[1]
             /\ raised' = error
          \/ /\ t[1]
             /\ \E m \in missing : raised' = [error EXCEPT !.names = m]
          \/ /\ t[1] /\ missing = {}
             /\ raised' = [kind |-> "IndexError",
                           check |-> "check_progressmeter_chromosomes"]

\* check_progressmeter_chromosomes returns
ChromosomesPass ==
    LET t == ChromosomeFaults(progressmeter)
    IN ~(t[1] \/ t[2] \/ t[3])

Parent_check_progressmeter_chromosomes ==
    /\ stage \in GatkStages /\ pc = "ready"
    /\ \/ /\ ChromosomesPass
          /\ raised' = NoError
          /\ UNCHANGED statVars
       \/ ChromosomesRaise
    /\ pc' = "done"
    /\ UNCHANGED notChromVars

\* ---- the progress-meter sections the check is run on

MaxMissing == 1

TextRow == [chrom |-> None, chrom_id |-> 0, minutes |-> 0, regions |-> 0]

RECURSIVE Without(_, _)
Without(list, drop) ==
    IF list = <<>> THEN <<>>
    ELSE IF list[1] \in drop THEN Without(Tail(list), drop)
    ELSE <<list[1]>> \o Without(Tail(list), drop)

\* entries k and k + 1 exchanged (k = 0: none)
Swapped(list, k) ==
    IF k = 0 \/ k >= Len(list) THEN list
    ELSE [j \in 1..Len(list) |->
            IF j = k THEN list[k + 1] ELSE IF j = k + 1 THEN list[k] ELSE list[j]]

WithExtra(list, extra) ==
    IF extra = <<>> THEN list
    ELSE IF extra[2] = "front" THEN <<extra[1]>> \o list
    ELSE Append(list, extra[1])

RECURSIVE Repeated(_, _)
Repeated(list, times) ==
    IF list = <<>> THEN <<>>
    ELSE [k \in 1..times |-> list[1]] \o Repeated(Tail(list), times)

\* one row for each label, two rows for each, or the first label met again
\* after the others
Shaped(list, shape) ==
    CASE shape = "once" -> list
      [] shape = "twice" -> Repeated(list, 2)
      [] shape = "revisit" -> IF list = <<>> THEN list ELSE Append(list, list[1])

BodyRows(labels, neg) ==
    [k \in 1..Len(labels) |->
        [chrom |-> labels[k],
         chrom_id |-> IF k = 1 /\ neg = "chrom_id" THEN -1 ELSE 10000 * k,
         minutes |-> k,
         regions |-> IF k = 1 /\ neg = "regions" THEN -1 ELSE 1000 * k]]

ProgressMeterSections ==
    {<<TextRow, TextRow>>
        \o BodyRows(Shaped(WithExtra(Swapped(Without(chr_temp, drop), swap), extra), shape),
                    neg)
        \o <<TextRow>> :
        drop \in SmallSubsets(Range(chr_temp), MaxMissing),
        swap \in {0, 1},
        extra \in {<<>>, <<"chrY", "back">>, <<"chrM", "front">>},
        shape \in {"once", "twice", "revisit"},
        neg \in {"none", "chrom_id", "regions"}}

InitChrom ==
    /\ stage = "HaploType"
    /\ pc = "ready"
    /\ log_file = <<>>
    /\ row_idx = 0
    /\ bools = NoBools
    /\ global_flags = <<>>
    /\ baserecalibrator = <<>>
    /\ applybqsr = <<>>
    /\ haplotype = <<>>
    /\ featuremanager = <<>>
    /\ progressmeter \in ProgressMeterSections
    /\ warning = <<>>
    /\ final_section = None
    /\ process = <<>>
    /\ mem_pestat = <<>>
    /\ mem_process_seqs = <<>>
    /\ IdleChecks
    /\ result = None
    /\ driver = None

NextChrom == Parent_check_progressmeter_chromosomes

SpecChrom == InitChrom /\ [][NextChrom]_vars

\* ---- claims

\* the place of the first body row labelled `label` (0: no such row)
FirstRow(body, label) ==
    IF \E k \in 1..Len(body) : body[k].chrom = label
    THEN Lowest({k \in 1..Len(body) : body[k].chrom = label})
    ELSE 0

\* the labels of `order` all occur in the body, no other label occurs, and
\* they make their first appearance in the order of `order`
InReferenceOrder(section, order) ==
    LET body == Body(section)
        first == [k \in 1..Len(order) |-> FirstRow(body, order[k])]
    IN /\ \A k \in 1..Len(order) : first[k] # 0
       /\ \A k \in 1..Len(body) : body[k].chrom \in Range(order)
       /\ \A k \in 1..(Len(order) - 1) : first[k] < first[k + 1]

\* the canonical labels no body row carries
Absent(section) ==
    {c \in Range(chr_temp) : \A k \in 1..Len(Body(section)) : Body(section)[k].chrom # c}

NonNegativeRows(section) ==
    \A k \in 1..Len(Body(section)) :
        Body(section)[k].chrom_id >= 0 /\ Body(section)[k].regions >= 0

C7_ExtraOrReorderedRaisesTagged ==
    (/\ pc = "done"
     /\ Absent(progressmeter) = {}
     /\ ~InReferenceOrder(progressmeter, chr_temp))
        => /\ raised.kind = "Exception"
           /\ raised.check = "check_progressmeter_chromosomes"
           /\ "t1" \in raised.tags


\* -------------------------------------------------- SamSort.check_table_sums
(***************************************************************************)
(* The samblaster table is log_file[8:-2]: one row for each pair type and  *)
(* a last row 'Total'.  A row is kept as the numbers float() reads from    *)
(* it, in thousandths (the table prints three decimals); every row of the  *)
(* tables studied has the six numeric columns of the header.               *)
(***************************************************************************)
TextLine == [cells |-> <<>>]

Abs(x) == IF x < 0 THEN -x ELSE x

\* int() of a float kept in thousandths: truncation towards zero
IntOf(x) == IF x >= 0 THEN x \div 1000 ELSE -((-x) \div 1000)

\* list_ of check_table_sums
TableOf(log) ==
    LET rows == Slice(log, 8, Len(log) - 2)
    IN [k \in 1..Len(rows) |-> rows[k].cells]

RECURSIVE SumTo(_, _, _)
\* sum(x[:-1]) on the array, read at column c: rows 1..k added up
SumTo(list, k, c) == IF k = 0 THEN 0 ELSE SumTo(list, k - 1, c) + list[k][c]

(***************************************************************************)
(* np.isclose(a, b, atol=0.001) is |a - b| <= 0.001 + 1e-05 * |b|, the     *)
(* relative term being numpy's default.  In thousandths the bound is       *)
(* 1 + |b| / 100000; when |a - b| meets it exactly the rounding of the     *)
(* floats decides, so both answers are possible there.                     *)
(***************************************************************************)
IsClose(a, b) ==
    LET d == Abs(a - b)
        whole == 1 + (Abs(b) \div 100000)
    IN IF d < whole THEN {TRUE}
       ELSE IF d > whole THEN {FALSE}
       ELSE IF Abs(b) % 100000 = 0 THEN BOOLEAN ELSE {TRUE}

\* the columns of [:3] and [4:] (counted from 1)
SummedColumns(width) == {c \in 1..width : c <= 3 \/ c > 4}

notTableVars ==
    <<stage, driver, result, log_file, row_idx, bools, global_flags, baserecalibrator, applybqsr,
      haplotype, featuremanager, progressmeter, warning, final_section, process,
      mem_pestat, mem_process_seqs, log_template, paired, dict_, chr_count,
      chr_time, chr_reads, kwargs, failing, executed>>

\* the body of check_table_sums: self.dups is set, then the sums are compared
TableSumsEffect ==
    LET list_ == TableOf(log_file)
        last == Len(list_)
        width == Len(list_[last])
    IN /\ dups' = IntOf(list_[last][3])
       /\ \E close \in [1..width -> BOOLEAN] :
             /\ \A c \in 1..width :
                   close[c] \in IsClose(SumTo(list_, last - 1, c), list_[last][c])
             /\ \/ /\ \A c \in SummedColumns(width) : close[c]
                   /\ raised' = NoError
                \/ /\ \E c \in SummedColumns(width) : ~close[c]
                   /\ raised' = [kind |-> "Exception", check |-> "check_table_sums"]

SamSort_check_table_sums ==
    /\ stage = "SamSort" /\ pc = "ready"
    /\ TableSumsEffect
    /\ pc' = "done"
    /\ UNCHANGED notTableVars

\* ---- the tables the check is run on

MaxDelta == 2

\* 0, 1 and 100000 reads, in thousandths
Amounts == {0, 1000, 100000000}

\* what a cell is changed by: a few thousandths, or one read
Deltas == ((-MaxDelta)..MaxDelta) \cup {-1000, 1000}

\* a row with v in its first and last column, or in every column
FilledRow(v, fill) ==
    IF fill = "ends" THEN <<v, 0, 0, 0, 0, v>> ELSE <<v, v, v, v, v, v>>

Changed(list, r, c, d) ==
    IF r > Len(list) THEN list ELSE [list EXCEPT ![r][c] = @ + d]

\* the rows of the pair types, filled from vs, and the row 'Total' under them
Table(vs, fill, off) ==
    LET n == Len(vs)
        types == [k \in 1..n |-> FilledRow(vs[k], fill)]
    IN Append(types, FilledRow(SumTo(types, n, 1) + off, fill))

\* samblaster prints counts and percentages, none below zero
NoneNegative(list) == \A k \in 1..Len(list) : \A c \in 1..Len(list[k]) : list[k][c] >= 0

Tables ==
    {table \in
        {Changed(Table(vs, fill, off), cell[1], cell[2], d) :
            vs \in [1..2 -> Amounts] \cup [1..3 -> Amounts],
            fill \in {"ends", "all"},
            off \in {0, 5000},
            cell \in (1..4) \X (1..6),
            d \in Deltas} :
        NoneNegative(table)}

\* SamSort.read_log: eight lines before the table, two after it
SamblasterLog(table) ==
    [k \in 1..8 |-> TextLine]
        \o [k \in 1..Len(table) |-> [cells |-> table[k]]]
        \o <<TextLine, TextLine>>

InitTable ==
    /\ stage = "SamSort"
    /\ pc = "ready"
    /\ \E table \in Tables :
          /\ log_file = SamblasterLog(table)
          /\ paired = (Len(table) = 4)
    /\ row_idx = 0
    /\ bools = NoBools
    /\ EmptySections
    /\ log_template = <<>>
    /\ dict_ = None
    /\ dups = None
    /\ chr_count = <<>>
    /\ chr_time = <<>>
    /\ chr_reads = <<>>
    /\ kwargs = {}
    /\ failing = {}
    /\ executed = <<>>
    /\ raised = NoError
    /\ result = None
    /\ driver = None

NextTable == SamSort_check_table_sums

SpecTable == InitTable /\ [][NextTable]_vars

\* ---- claims

\* the last column of every row is the sum of the columns before it
RowConsistent(list) ==
    \A k \in 1..Len(list) :
        list[k][Len(list[k])]
            = list[k][1] + list[k][2] + list[k][3] + list[k][4] + list[k][5]

\* the table is a row-consistent table with one cell, not in the last column,
\* changed by more than 0.001
OneCellChanged(list) ==
    \E k \in 1..Len(list), c \in 1..5, d \in Deltas :
        /\ Abs(d) > 1
        /\ RowConsistent(Changed(list, k, c, -d))

\* C8 (as stated): check_table_sums passes on every table whose rows each end
\* in the sum of their preceding columns, and raises on every such table with
\* one cell outside the last column changed by more than 0.001.
C8_RowSumsPassAndChangeRaises ==
    pc = "done" =>
        /\ RowConsistent(TableOf(log_file)) => raised = NoError
        /\ OneCellChanged(TableOf(log_file)) => raised # NoError


\* ------------------------------------------ Parent.check_global_flags_variables
(***************************************************************************)
(* The rows of the template are told apart by their place: row k of the    *)
(* template is the number k + 1, and a row of the log that differs from    *)
(* row k of the template is the number -(k + 1).  Places are counted from  *)
(* 0, as range() counts them.                                              *)
(***************************************************************************)
FlagsLen == 722

ExemptRows == {55, 257, 304, 316, 349, 360}

\* an exemption list that exempts nothing
ExemptNever(row) == FALSE

\* row not in [55, 257, 304, 316, 349, 360], negated
Exempt(row) == row \in ExemptRows

_read_template(n) == [k \in 1..n |-> k]

\* the template's rows with those at the places of `diffs` replaced
FlagsDiffering(diffs) == [k \in 1..FlagsLen |-> IF (k - 1) \in diffs THEN -k ELSE k]

\* the rows at which the for loop cannot go on: log_template[row] does not
\* exist, or the rows differ and the row is not exempt
FlagsStops(original, template) ==
    {row \in 0..(Len(original) - 1) :
        \/ row >= Len(template)
        \/ original[row + 1] # template[row + 1] /\ ~Exempt(row)}

\* the for loop: it ends at the first row at which it cannot go on
FlagsLoop(original, template) ==
    LET stops == FlagsStops(original, template)
    IN IF stops = {} THEN [end |-> "return", row |-> Len(original) - 1]
       ELSE IF Lowest(stops) >= Len(template)
            THEN [end |-> "IndexError", row |-> Lowest(stops)]
            ELSE [end |-> "raise", row |-> Lowest(stops)]

notFlagsVars ==
    <<stage, driver, result, log_file, bools, global_flags, baserecalibrator, applybqsr,
      haplotype, featuremanager, progressmeter, warning, final_section, process,
      mem_pestat, mem_process_seqs, log_template, paired, dict_, dups, chr_count,
      chr_time, chr_reads, kwargs, failing, executed>>

\* row_idx is the loop variable `row` as the method leaves it
Parent_check_global_flags_variables ==
    /\ stage \in {"BaseRecalibrator", "ApplyBQSR"} /\ pc = "ready"
    /\ LET out == FlagsLoop(global_flags, log_template)
       IN /\ row_idx' = out.row
          /\ \/ /\ out.end = "return"
                /\ raised' = NoError
             \/ /\ out.end = "raise"
                /\ raised' = [kind |-> "Exception",
                              check |-> "check_global_flags_variables"]
             \/ /\ out.end = "IndexError"
                /\ raised' = [kind |-> "IndexError",
                              check |-> "check_global_flags_variables"]
    /\ pc' = "done"
    /\ UNCHANGED notFlagsVars

\* ---- the sections and templates the check is run on

MaxDiffs == 2

\* the exempt places, the places next to two of them, and the two ends
PlacesTried == ExemptRows \cup {0, 56, 258, 359, 361, FlagsLen - 1}

InitFlags ==
    /\ stage = "BaseRecalibrator"
    /\ pc = "ready"
    /\ log_file = <<>>
    /\ row_idx = 0
    /\ bools = NoBools
    /\ \E diffs \in SmallSubsets(PlacesTried, MaxDiffs) :
          global_flags = FlagsDiffering(diffs)
    /\ log_template \in {_read_template(FlagsLen), _read_template(FlagsLen - 1)}
    /\ baserecalibrator = <<>>
    /\ applybqsr = <<>>
    /\ haplotype = <<>>
    /\ featuremanager = <<>>
    /\ progressmeter = <<>>
    /\ warning = <<>>
    /\ final_section = None
    /\ process = <<>>
    /\ mem_pestat = <<>>
    /\ mem_process_seqs = <<>>
    /\ paired = FALSE
    /\ dict_ = None
    /\ dups = None
    /\ chr_count = <<>>
    /\ chr_time = <<>>
    /\ chr_reads = <<>>
    /\ kwargs = {}
    /\ failing = {}
    /\ executed = <<>>
    /\ raised = NoError
    /\ result = None
    /\ driver = None

NextFlags == Parent_check_global_flags_variables

SpecFlags == InitFlags /\ [][NextFlags]_vars

\* ---- claims

\* the places where section and template differ
Mismatches == {r \in 0..(Len(global_flags) - 1) : global_flags[r + 1] # log_template[r + 1]}

\* C9: on a section and a template of equal length the comparison raises
\* exactly when they differ at some place outside the exemption list, and it
\* stops at the first such place; differences at exempted places alone, or no
\* difference at all, let it pass.
C9_RaisesIffNonExemptMismatch ==
    (pc = "done" /\ Len(global_flags) = Len(log_template)) =>
        LET bad == Mismatches \ {55, 257, 304, 316, 349, 360}
        IN /\ bad = {} => raised = NoError
           /\ bad # {} =>
                 /\ raised = [kind |-> "Exception", check |-> "check_global_flags_variables"]
                 /\ row_idx = Lowest(bad)

\* C9 witness: the section differs from the template at an exempted place and
\* at a later place that is not exempted, and the comparison has raised there.
C9_Witness ==
    /\ pc = "done"
    /\ Len(global_flags) = Len(log_template)
    /\ 55 \in Mismatches
    /\ 258 \in Mismatches
    /\ raised # NoError
    /\ row_idx = 258


\* ------------------------------------------------------ Bwa.check_mem_pestat
(***************************************************************************)
(* A row of the mem_pestat section, by what the checks read in it:         *)
(*   candidate   '[M::mem_pestat] # candidate unique pairs for (FF, FR,    *)
(*               RF, RR): ...', with the four counts,                      *)
(*   skip        '... skip orientation XX as there are not enough pairs',  *)
(*   analyzing   '... analyzing insert size distribution for orientation   *)
(*               XX...', the only rows ending in '...',                    *)
(*   percentile, boundaries_mean, mean, boundaries_proper                  *)
(*               the four summary rows.                                    *)
(***************************************************************************)
Orientations == {"FF", "FR", "RF", "RR"}

threshold == 10

PestatRow(kind, orient, counts) == [kind |-> kind, orient |-> orient, counts |-> counts]

Summary == <<"percentile", "boundaries_mean", "mean", "boundaries_proper">>

\* the places (from 0) of the rows that start with '[M::mem_pestat] # candidate'
batch_nums(section) ==
    LET at == {k \in 1..Len(section) : section[k].kind = "candidate"}
    IN [j \in 1..Cardinality(at) |->
            (CHOOSE k \in at : Cardinality({m \in at : m < k}) = j - 1) - 1]

\* range(len(batch_nums)-1), as the number of values it runs through
BatchRange(nums) == Len(nums) - 1

\* check_not_enough_pairs raises on the batch
NotEnoughRaises(batch) ==
    \E k \in 2..Len(batch) :
        /\ batch[k].kind = "skip"
        /\ batch[1].counts[batch[k].orient] > threshold

\* what check_enough_pairs finds at row k of the batch, d being self.dict_
EnoughAt(batch, k, d) ==
    IF batch[k].kind # "analyzing" THEN "none"
    ELSE IF d[batch[k].orient] >= threshold
         THEN IF k + 4 > Len(batch) THEN "IndexError"
              ELSE IF \E j \in 1..4 : batch[k + j].kind # Summary[j]
                   THEN "Exception" ELSE "none"
         ELSE "Exception"

\* check_not_enough_pairs(batch); check_enough_pairs(batch)
BatchOutcome(batch) ==
    LET d == batch[1].counts
        found == {k \in 1..Len(batch) : EnoughAt(batch, k, d) # "none"}
    IN IF NotEnoughRaises(batch)
       THEN [kind |-> "Exception", check |-> "check_not_enough_pairs"]
       ELSE IF found = {} THEN NoError
       ELSE [kind |-> EnoughAt(batch, Lowest(found), d), check |-> "check_enough_pairs"]

RECURSIVE PestatLoop(_, _, _, _)
\* the second for loop from i on: the error it ends with and self.dict_ then
PestatLoop(section, nums, i, d) ==
    IF i >= BatchRange(nums) THEN [raised |-> NoError, dict_ |-> d]
    ELSE LET batch == Slice(section, nums[i + 1], nums[i + 2])
             out == BatchOutcome(batch)
         IN IF out # NoError THEN [raised |-> out, dict_ |-> batch[1].counts]
            ELSE PestatLoop(section, nums, i + 1, batch[1].counts)

notPestatVars ==
    <<stage, driver, result, log_file, row_idx, bools, global_flags, baserecalibrator, applybqsr,
      haplotype, featuremanager, progressmeter, warning, final_section, process,
      mem_pestat, mem_process_seqs, log_template, paired, dups, chr_count,
      chr_time, chr_reads, kwargs, failing, executed>>

Bwa_check_mem_pestat ==
    /\ stage = "Bwa" /\ pc = "ready"
    /\ \/ /\ ~paired
          /\ raised' = NoError
          /\ dict_' = dict_
       \/ /\ paired
          /\ LET out == PestatLoop(mem_pestat, batch_nums(mem_pestat), 0, dict_)
             IN /\ raised' = out.raised
                /\ dict_' = out.dict_
    /\ pc' = "done"
    /\ UNCHANGED notPestatVars

\* ---- the sections the check is run on

MaxBatches == 2

\* counts of the header row: FF and FR around the threshold, RF and RR none
HeaderCounts ==
    {[o \in Orientations |-> IF o = "FF" THEN c[1] ELSE IF o = "FR" THEN c[2] ELSE 0] :
        c \in {<<9, 11>>, <<10, 10>>, <<11, 11>>, <<9, 9>>}}

SummaryRows(kinds) == [k \in 1..Len(kinds) |-> PestatRow(kinds[k], None, None)]

\* what follows the header: FF skipped, FR analysed, with the summary rows
\* complete, cut short, or in another order
BatchBodies ==
    {<<PestatRow("skip", "FF", None), PestatRow("analyzing", "FR", None)>>
        \o SummaryRows(kinds) :
        kinds \in {Summary,
                   SubSeq(Summary, 1, 3),
                   <<"percentile", "mean", "boundaries_mean", "boundaries_proper">>}}

Batches == {<<PestatRow("candidate", None, c)>> \o body : c \in HeaderCounts, body \in BatchBodies}

RECURSIVE PestatSections(_)
\* the sections of at most n batches
PestatSections(n) ==
    IF n = 0 THEN {<<>>}
    ELSE LET shorter == PestatSections(n - 1)
         IN shorter \cup {section \o batch : section \in shorter, batch \in Batches}

InitPestat ==
    /\ stage = "Bwa"
    /\ pc = "ready"
    /\ log_file = <<>>
    /\ row_idx = 0
    /\ bools = NoBools
    /\ global_flags = <<>>
    /\ baserecalibrator = <<>>
    /\ applybqsr = <<>>
    /\ haplotype = <<>>
    /\ featuremanager = <<>>
    /\ progressmeter = <<>>
    /\ warning = <<>>
    /\ final_section = None
    /\ process = <<>>
    /\ mem_pestat \in PestatSections(MaxBatches)
    /\ mem_process_seqs = <<>>
    /\ log_template = <<>>
    /\ paired \in BOOLEAN
    /\ dict_ = None
    /\ dups = None
    /\ chr_count = <<>>
    /\ chr_time = <<>>
    /\ chr_reads = <<>>
    /\ kwargs = {}
    /\ failing = {}
    /\ executed = <<>>
    /\ raised = NoError
    /\ result = None
    /\ driver = None

NextPestat == Bwa_check_mem_pestat

SpecPestat == InitPestat /\ [][NextPestat]_vars

\* ---- claims

\* the rows from the header at place k up to the next header or the end
BatchFrom(section, k) ==
    LET later == {m \in (k + 1)..Len(section) : section[m].kind = "candidate"}
    IN SubSeq(section, k, IF later = {} THEN Len(section) ELSE Lowest(later) - 1)

\* a skip row for an orientation above the threshold, or an analysis row not
\* followed by the four summary rows
FaultyBatch(batch) ==
    \E k \in 2..Len(batch) :
        \/ /\ batch[k].kind = "skip"
           /\ batch[1].counts[batch[k].orient] > threshold
        \/ /\ batch[k].kind = "analyzing"
           /\ ~(/\ k + 4 <= Len(batch)
                /\ \A j \in 1..4 : batch[k + j].kind = Summary[j])

\* C10 (as stated): for a paired sample check_mem_pestat raises when any
\* batch of the section, the last one included, holds a skip row for an
\* orientation above the threshold or an analysis row without its four
\* summary rows.
C10_EveryBatchValidated ==
    (pc = "done" /\ paired) =>
        \A k \in 1..Len(mem_pestat) :
            (mem_pestat[k].kind = "candidate" /\ FaultyBatch(BatchFrom(mem_pestat, k)))
                => raised # NoError


\* ------------------------------------------- checks at fixed offsets of a section
(***************************************************************************)
(* A row of an engine section is kept as the text the checks look for at   *)
(* its end ('Initializing engine', 'ReadGroupCovariate', ...), or "other"  *)
(* for any text none of the checks looks for.  A probe is one comparison   *)
(* `section[at][..] != text` of a check, `at` being the Python index.      *)
(***************************************************************************)
Probe(at, text) == [at |-> at, text |-> text]

\* the place (from 1) of Python index `at` in a list of n rows, 0 if there is none
PlaceOf(at, n) ==
    LET place == IF at >= 0 THEN at + 1 ELSE n + at + 1
    IN IF place >= 1 /\ place <= n THEN place ELSE 0

\* the assignments t1 = ..., t2 = ... of a check and its `if t1 | t2 | ...: raise`:
\* an index outside the section ends the check before any comparison is used
ProbeOutcome(check, msg, section, probes) ==
    IF \E k \in 1..Len(probes) : PlaceOf(probes[k].at, Len(section)) = 0
    THEN [kind |-> "IndexError", check |-> check]
    ELSE LET conds == [k \in 1..Len(probes) |->
                          section[PlaceOf(probes[k].at, Len(section))] # probes[k].text]
         IN IF \E k \in 1..Len(probes) : conds[k]
            THEN [kind |-> "Exception", check |-> check, msg |-> msg, tags |-> Tags(conds)]
            ELSE NoError

\* `if len(section) < least: raise`
LenOutcome(check, section, least) ==
    IF Len(section) < least
    THEN [kind |-> "Exception", check |-> check, msg |-> check, tags |-> {}]
    ELSE NoError

\* the calls of a grouping method one after the other: the first error leaves it
RECURSIVE FirstError(_)
FirstError(outcomes) ==
    IF outcomes = <<>> THEN NoError
    ELSE IF outcomes[1] # NoError THEN outcomes[1]
    ELSE FirstError(Tail(outcomes))

check_baserecalibrator_engine(section) ==
    ProbeOutcome("check_baserecalibrator_engine", "check_baserecalibrator_engine", section,
                 <<Probe(19, "Initializing engine"),
                   Probe(20, "Done initializing engine"),
                   Probe(-1, "Shutting down engine")>>)

check_baserecalibrator_covariates(section) ==
    ProbeOutcome("check_baserecalibrator_covariates", "check_baserecalibrator_engine", section,
                 <<Probe(22, "ReadGroupCovariate"),
                   Probe(23, "QualityScoreCovariate"),
                   Probe(24, "ContextCovariate"),
                   Probe(25, "CycleCovariate")>>)

check_baserecalibrator_filters(section) ==
    ProbeOutcome("check_baserecalibrator_filters", "check_baserecalibrator_filters", section,
                 <<Probe(27, "MappingQualityAvailableReadFilter"),
                   Probe(28, "MappedReadFilter"),
                   Probe(29, "NotSecondaryAlignmentReadFilter"),
                   Probe(30, "NotDuplicateReadFilter"),
                   Probe(31, "PassesVendorQualityCheckReadFilter"),
                   Probe(32, "WellformedReadFilter")>>)

\* t5 reads re.findall(r'\d+', row[38:-1])[0]: of the rows kept here only the
\* 'was able to recalibrate N reads' row has a number behind column 38
check_baserecalibrator_quantization(section) ==
    LET probes == ProbeOutcome("check_baserecalibrator_quantization",
                               "check_baserecalibrator_quantization", section,
                     <<Probe(33, "Calculating quantized quality scores..."),
                       Probe(34, "Writing recalibration report..."),
                       Probe(35, "...done!"),
                       Probe(36, "BaseRecalibrator was able to recalibrate N reads")>>)
    IN IF probes.kind = "Exception" /\ "t4" \in probes.tags
       THEN [kind |-> "IndexError", check |-> "check_baserecalibrator_quantization"]
       ELSE probes

\* BaseRecalibrator.check_baserecalibrator
check_baserecalibrator(section) ==
    FirstError(<<LenOutcome("check_baserecalibrator_len", section, 21),
                 check_baserecalibrator_engine(section),
                 check_baserecalibrator_covariates(section),
                 check_baserecalibrator_filters(section),
                 check_baserecalibrator_quantization(section)>>)

check_applybqsr_engine(section) ==
    ProbeOutcome("check_applybqsr_engine", "check_applybqsr_engine", section,
                 <<Probe(19, "Initializing engine"),
                   Probe(20, "Done initializing engine"),
                   Probe(-1, "Shutting down engine")>>)

check_applybqsr_quantization(section) ==
    LET probes == ProbeOutcome("check_applybqsr_quantization",
                               "check_applybqsr_quantization", section,
                               <<Probe(-2, "WellformedReadFilter")>>)
    IN IF probes.kind = "Exception" THEN [probes EXCEPT !.tags = {}] ELSE probes

\* ApplyBQSR.check_applybqsr
check_applybqsr(section) ==
    FirstError(<<check_applybqsr_engine(section), check_applybqsr_quantization(section)>>)

check_haplotype_engine(section) ==
    ProbeOutcome("check_haplotype_engine", "check_haplotype_engine", section,
                 <<Probe(19, "Initializing engine"),
                   Probe(20, "Done initializing engine"),
                   Probe(-1, "Shutting down engine")>>)

check_haplotype_filters(section) ==
    ProbeOutcome("check_haplotype_filters", "check_haplotype_filters", section,
                 <<Probe(25, "MappingQualityAvailableReadFilter"),
                   Probe(26, "MappedReadFilter"),
                   Probe(27, "NotSecondaryAlignmentReadFilter"),
                   Probe(28, "NotDuplicateReadFilter"),
                   Probe(29, "PassesVendorQualityCheckReadFilter"),
                   Probe(30, "NonZeroReferenceLengthAlignmentReadFilter"),
                   Probe(31, "GoodCigarReadFilter"),
                   Probe(32, "WellformedReadFilter")>>)

\* HaploType.check_len, and later in check_log HaploType.check_haplotype
check_len_check_haplotype(section) ==
    FirstError(<<LenOutcome("check_len", section, 32),
                 check_haplotype_engine(section),
                 check_haplotype_filters(section)>>)

notOffsetVars ==
    <<stage, driver, result, log_file, row_idx, bools, global_flags, baserecalibrator, applybqsr,
      haplotype, featuremanager, progressmeter, warning, final_section, process,
      mem_pestat, mem_process_seqs, log_template, paired, dict_, dups, chr_count,
      chr_time, chr_reads, kwargs, failing, executed>>

\* the engine-section checks of BaseRecalibrator.check_log
BaseRecalibrator_check_baserecalibrator ==
    /\ stage = "BaseRecalibrator" /\ pc = "ready"
    /\ raised' = check_baserecalibrator(baserecalibrator)
    /\ pc' = "done"
    /\ UNCHANGED notOffsetVars

\* the engine-section checks of ApplyBQSR.check_log
ApplyBQSR_check_applybqsr ==
    /\ stage = "ApplyBQSR" /\ pc = "ready"
    /\ raised' = check_applybqsr(applybqsr)
    /\ pc' = "done"
    /\ UNCHANGED notOffsetVars

\* the engine-section checks of HaploType.check_log (check_running and
\* check_correct_sample, called between them, read log_file only)
HaploType_check_haplotype ==
    /\ stage = "HaploType" /\ pc = "ready"
    /\ raised' = check_len_check_haplotype(haplotype)
    /\ pc' = "done"
    /\ UNCHANGED notOffsetVars

\* ---- the engine sections the checks are run on

MaxExtraRows == 1

\* the rows at Python index 0 .. n - 1 of a section on which every probe finds its text
HeadRows(probes, n) ==
    [k \in 1..n |->
        IF \E j \in 1..Len(probes) : probes[j].at = k - 1
        THEN probes[CHOOSE j \in 1..Len(probes) : probes[j].at = k - 1].text
        ELSE "other"]

EngineHead(st) ==
    CASE st = "BaseRecalibrator" ->
            HeadRows(<<Probe(19, "Initializing engine"), Probe(20, "Done initializing engine"),
                       Probe(22, "ReadGroupCovariate"), Probe(23, "QualityScoreCovariate"),
                       Probe(24, "ContextCovariate"), Probe(25, "CycleCovariate"),
                       Probe(27, "MappingQualityAvailableReadFilter"),
                       Probe(28, "MappedReadFilter"),
                       Probe(29, "NotSecondaryAlignmentReadFilter"),
                       Probe(30, "NotDuplicateReadFilter"),
                       Probe(31, "PassesVendorQualityCheckReadFilter"),
                       Probe(32, "WellformedReadFilter"),
                       Probe(33, "Calculating quantized quality scores..."),
                       Probe(34, "Writing recalibration report..."),
                       Probe(35, "...done!"),
                       Probe(36, "BaseRecalibrator was able to recalibrate N reads")>>, 37)
      [] st = "ApplyBQSR" ->
            HeadRows(<<Probe(19, "Initializing engine"), Probe(20, "Done initializing engine")>>, 21)
      [] st = "HaploType" ->
            HeadRows(<<Probe(19, "Initializing engine"), Probe(20, "Done initializing engine"),
                       Probe(25, "MappingQualityAvailableReadFilter"),
                       Probe(26, "MappedReadFilter"),
                       Probe(27, "NotSecondaryAlignmentReadFilter"),
                       Probe(28, "NotDuplicateReadFilter"),
                       Probe(29, "PassesVendorQualityCheckReadFilter"),
                       Probe(30, "NonZeroReferenceLengthAlignmentReadFilter"),
                       Probe(31, "GoodCigarReadFilter"),
                       Probe(32, "WellformedReadFilter")>>, 33)

\* the rows the probes at -2 and -1 look for
EngineTail(st) ==
    IF st = "ApplyBQSR" THEN <<"WellformedReadFilter", "Shutting down engine">>
    ELSE <<"Shutting down engine">>

\* a complete section cut after n rows, with or without the closing rows of
\* the engine behind the cut
EngineSections(st) ==
    {SubSeq(EngineHead(st), 1, n) \o [k \in 1..extra |-> "other"] \o tail :
        n \in 0..Len(EngineHead(st)),
        extra \in 0..MaxExtraRows,
        tail \in {<<>>, EngineTail(st)}}

InitOffsets ==
    /\ stage \in GatkStages
    /\ pc = "ready"
    /\ log_file = <<>>
    /\ row_idx = 0
    /\ bools = NoBools
    /\ global_flags = <<>>
    /\ baserecalibrator \in
          IF stage = "BaseRecalibrator" THEN EngineSections(stage) ELSE {<<>>}
    /\ applybqsr \in IF stage = "ApplyBQSR" THEN EngineSections(stage) ELSE {<<>>}
    /\ haplotype \in IF stage = "HaploType" THEN EngineSections(stage) ELSE {<<>>}
    /\ featuremanager = <<>>
    /\ progressmeter = <<>>
    /\ warning = <<>>
    /\ final_section = None
    /\ process = <<>>
    /\ mem_pestat = <<>>
    /\ mem_process_seqs = <<>>
    /\ IdleChecks
    /\ result = None
    /\ driver = None

NextOffsets ==
    \/ BaseRecalibrator_check_baserecalibrator
    \/ ApplyBQSR_check_applybqsr
    \/ HaploType_check_haplotype

SpecOffsets == InitOffsets /\ [][NextOffsets]_vars

\* ---- claims

\* the engine section of the stage under study
StageSection ==
    CASE stage = "BaseRecalibrator" -> baserecalibrator
      [] stage = "ApplyBQSR" -> applybqsr
      [] stage = "HaploType" -> haplotype

\* the section has no row at some offset the checks of the stage read
TooShort ==
    Len(StageSection) < Len(EngineHead(stage))

\* C11 (as stated): when the engine section is too short for the offsets the
\* checks read, the checks end with the tagged length-check error of the
\* stage, never with an index failure.
C11_ShortSectionFailsLengthCheck ==
    (pc = "done" /\ TooShort) =>
        /\ raised.kind = "Exception"
        /\ raised.check \in {"check_baserecalibrator_len", "check_len"}


\* ---------------------------------------------------- SamSort.check_removals
(***************************************************************************)
(* The numbers written on the last line of the log, each as it is written: *)
(* an optional minus sign, the digits before the point, whether there is a *)
(* point, and the digits behind it in thousandths.                         *)
(***************************************************************************)
Written(sign, whole, point, frac) ==
    [sign |-> sign, whole |-> whole, point |-> point, frac |-> frac]

\* the value of the number as written, in thousandths
ValueOf(w) ==
    LET size == w.whole * 1000 + w.frac
    IN IF w.sign = "-" THEN -size ELSE size

\* float() of what re.findall(r"[-+]?\d*\.\d+|\d+", line) cuts out of the
\* number: the sign belongs to the first alternative only, so a number
\* written without a point is cut out without its sign
Found(w) ==
    IF w.point THEN ValueOf(w) ELSE w.whole * 1000

\* nums of check_removals
NumsOf(line) == [k \in 1..Len(line.numbers) |-> Found(line.numbers[k])]

notRemovalVars ==
    <<stage, driver, result, log_file, row_idx, bools, global_flags, baserecalibrator, applybqsr,
      haplotype, featuremanager, progressmeter, warning, final_section, process,
      mem_pestat, mem_process_seqs, log_template, paired, dict_, dups, chr_count,
      chr_time, chr_reads, kwargs, failing, executed>>

\* what check_removals raises, if anything; `assigned` tells whether
\* self.dups has been assigned by check_table_sums (it is None before, and
\* an int differs from None)
RemovalsOutcome(log, d, assigned) ==
    LET nums == NumsOf(log[Len(log)])
    IN IF nums = <<>>
       THEN [kind |-> "IndexError", check |-> "check_removals"]
       ELSE LET t1 == IF assigned THEN IntOf(nums[1]) # d ELSE TRUE
                t2 == \E k \in 1..Len(nums) : IntOf(nums[k]) < 0
            IN IF t1 \/ t2
               THEN [kind |-> "Exception", check |-> "check_removals",
                     msg |-> "check_removals", tags |-> Tags(<<t1, t2>>)]
               ELSE NoError

\* check_removals, called by check_log after check_table_sums has returned
SamSort_check_removals ==
    /\ stage = "SamSort" /\ pc = "done" /\ raised = NoError
    /\ raised' = RemovalsOutcome(log_file, dups, TRUE)
    /\ pc' = "removed"
    /\ UNCHANGED notRemovalVars

\* ---- the logs the two checks are run on

MaxNumbers == 2

WrittenNumbers ==
    {Written(sign, whole, decimal[1], decimal[2]) :
        sign \in {"", "-"},
        whole \in {0, 2, 3},
        decimal \in {<<FALSE, 0>>, <<TRUE, 0>>, <<TRUE, 500>>}}

RECURSIVE NumberLines(_)
\* the lines with at most n numbers
NumberLines(n) ==
    IF n = 0 THEN {<<>>}
    ELSE LET shorter == NumberLines(n - 1)
         IN shorter \cup {Append(line, w) : line \in shorter, w \in WrittenNumbers}

\* tables that add up, with 0, 2 or 3 duplicates in the row 'Total'
RemovalTables == {Table(vs, "all", 0) : vs \in {<<0, 0>>, <<1000, 1000>>, <<1000, 2000>>}}

InitRemovals ==
    /\ stage = "SamSort"
    /\ pc = "ready"
    /\ \E table \in RemovalTables, numbers \in NumberLines(MaxNumbers) :
          /\ log_file = [k \in 1..8 |-> TextLine]
                            \o [k \in 1..Len(table) |-> [cells |-> table[k]]]
                            \o <<TextLine, [cells |-> <<>>, numbers |-> numbers]>>
          /\ paired = (Len(table) = 4)
    /\ row_idx = 0
    /\ bools = NoBools
    /\ EmptySections
    /\ log_template = <<>>
    /\ dict_ = None
    /\ dups = None
    /\ chr_count = <<>>
    /\ chr_time = <<>>
    /\ chr_reads = <<>>
    /\ kwargs = {}
    /\ failing = {}
    /\ executed = <<>>
    /\ raised = NoError
    /\ result = None
    /\ driver = None

NextRemovals ==
    \/ SamSort_check_table_sums
    \/ SamSort_check_removals

SpecRemovals == InitRemovals /\ [][NextRemovals]_vars

\* ---- claims

\* the numbers written on the last line of the log
LastNumbers == log_file[Len(log_file)].numbers

\* the duplicate count of the row 'Total', in thousandths
TotalDups == TableOf(log_file)[Len(TableOf(log_file))][3]

\* C13 (as stated): check_removals, run after check_table_sums, raises
\* exactly when the first number of the last line differs from the duplicate
\* count of the row 'Total' or some number of the line is negative, and its
\* message lists the tags of the conditions that hold (t1 the count, t2 a
\* negative number).
C13_RemovalsRaisesIffMismatchOrNegative ==
    (pc = "removed" /\ LastNumbers # <<>>) =>
        LET mismatch == ValueOf(LastNumbers[1]) # TotalDups
            negative == \E k \in 1..Len(LastNumbers) : ValueOf(LastNumbers[k]) < 0
        IN IF mismatch \/ negative
           THEN /\ raised.kind = "Exception"
                /\ raised.tags = Tags(<<mismatch, negative>>)
           ELSE raised = NoError


\* ------------------------------------------ Parent.check_progressmeter_start_end
(***************************************************************************)
(* A row of the progress-meter section, by what this check reads in it:    *)
(*   start    the row ends in 'Starting traversal' (row[-19:-1]),           *)
(*   phrases  how often 'Traversal complete. Processed' occurs behind      *)
(*            column 15,                                                   *)
(*   numbers  the numbers written behind column 15.                        *)
(***************************************************************************)
MeterRow(start, phrases, numbers) ==
    [start |-> start, phrases |-> phrases, numbers |-> numbers]

notStartEndVars ==
    <<stage, driver, result, log_file, row_idx, bools, global_flags, baserecalibrator, applybqsr,
      haplotype, featuremanager, progressmeter, warning, final_section, process,
      mem_pestat, mem_process_seqs, log_template, paired, dict_, dups, chr_count,
      chr_time, chr_reads, kwargs, failing, executed>>

\* what check_progressmeter_start_end raises on the section, if anything
StartEndOutcome(section) ==
    IF section = <<>>
    THEN [kind |-> "IndexError", check |-> "check_progressmeter_start_end"]
    ELSE LET first == section[1]
             last == section[Len(section)]
             end_nums == NumsOf(last)
             t1 == ~first.start
             t2 == last.phrases # 1
             t3 == \E k \in 1..Len(end_nums) : end_nums[k] <= 0
         IN IF t1 \/ t2 \/ t3
            THEN [kind |-> "Exception",
                  check |-> "check_progressmeter_start_end",
                  msg |-> "check_progressmeter_start_end",
                  tags |-> Tags(<<t1, t2, t3>>)]
            ELSE NoError

Parent_check_progressmeter_start_end ==
    /\ stage \in GatkStages /\ pc = "ready"
    /\ raised' = StartEndOutcome(progressmeter)
    /\ pc' = "done"
    /\ UNCHANGED notStartEndVars

\* ---- the sections the check is run on

EndNumbers ==
    {Written("", 0, FALSE, 0), Written("", 3, FALSE, 0), Written("-", 3, FALSE, 0),
     Written("", 0, TRUE, 0), Written("", 2, TRUE, 500), Written("-", 2, TRUE, 500)}

RECURSIVE EndLines(_)
EndLines(n) ==
    IF n = 0 THEN {<<>>}
    ELSE LET shorter == EndLines(n - 1)
         IN shorter \cup {Append(line, w) : line \in shorter, w \in EndNumbers}

MeterRows ==
    {MeterRow(start, phrases, numbers) :
        start \in BOOLEAN, phrases \in 0..2, numbers \in EndLines(MaxNumbers)}

\* no row, one row, or a first row and a last row
StartEndSections ==
    {<<>>} \cup {<<row>> : row \in MeterRows}
           \cup {<<MeterRow(start, 0, <<>>), row>> : start \in BOOLEAN, row \in MeterRows}

InitStartEnd ==
    /\ stage = "ApplyBQSR"
    /\ pc = "ready"
    /\ log_file = <<>>
    /\ row_idx = 0
    /\ bools = NoBools
    /\ global_flags = <<>>
    /\ baserecalibrator = <<>>
    /\ applybqsr = <<>>
    /\ haplotype = <<>>
    /\ featuremanager = <<>>
    /\ progressmeter \in StartEndSections
    /\ warning = <<>>
    /\ final_section = None
    /\ process = <<>>
    /\ mem_pestat = <<>>
    /\ mem_process_seqs = <<>>
    /\ IdleChecks
    /\ result = None
    /\ driver = None

NextStartEnd == Parent_check_progressmeter_start_end

SpecStartEnd == InitStartEnd /\ [][NextStartEnd]_vars

\* ---- claims

\* C14 (as stated): the check passes exactly when the first row ends in
\* 'Starting traversal', the last row holds the phrase 'Traversal complete.
\* Processed' once and no number of the last row is negative; otherwise it
\* raises and lists the conditions that failed (t1 start, t2 phrase, t3
\* numbers).
C14_StartEndPassesIffNonNegative ==
    (pc = "done" /\ progressmeter # <<>>) =>
        LET last == progressmeter[Len(progressmeter)]
            t1 == ~progressmeter[1].start
            t2 == last.phrases # 1
            t3 == \E k \in 1..Len(last.numbers) : ValueOf(last.numbers[k]) < 0
        IN IF t1 \/ t2 \/ t3
           THEN raised.kind = "Exception" /\ raised.tags = Tags(<<t1, t2, t3>>)
           ELSE raised = NoError


\* ------------------------------------------------- check_final_section_others
(***************************************************************************)
(* A line of the final section is kept as the list of the words of         *)
(* \bPSYoungGen\b|\bParOldGen\b|\bMetaspace\b that occur in it, in order.  *)
(***************************************************************************)
Markers == {"PSYoungGen", "ParOldGen", "Metaspace"}

\* final_section[3:] in BaseRecalibrator, final_section[1:] in ApplyBQSR
Inspected(st, section) ==
    IF st = "BaseRecalibrator" THEN Slice(section, 3, Len(section))
    ELSE Slice(section, 1, Len(section))

RECURSIVE Joined(_)
\* ''.join(lines), as the words it holds
Joined(lines) == IF lines = <<>> THEN <<>> ELSE lines[1] \o Joined(Tail(lines))

\* len(re.findall(...)) != 3
WrongCount(words) == Len(words) # 3

notFinalVars ==
    <<stage, driver, result, log_file, row_idx, bools, global_flags, baserecalibrator, applybqsr,
      haplotype, featuremanager, progressmeter, warning, final_section, process,
      mem_pestat, mem_process_seqs, log_template, paired, dict_, dups, chr_count,
      chr_time, chr_reads, kwargs, failing, executed>>

\* the body of check_final_section_others
FinalSectionOthers(st, section) ==
    IF WrongCount(Joined(Inspected(st, section)))
    THEN [kind |-> "Exception", check |-> "check_final_section_others",
          msg |-> "check_final_section_others", tags |-> {}]
    ELSE NoError

BaseRecalibrator_check_final_section_others ==
    /\ stage = "BaseRecalibrator" /\ pc = "ready"
    /\ raised' = FinalSectionOthers("BaseRecalibrator", final_section)
    /\ pc' = "done"
    /\ UNCHANGED notFinalVars

ApplyBQSR_check_final_section_others ==
    /\ stage = "ApplyBQSR" /\ pc = "ready"
    /\ raised' = FinalSectionOthers("ApplyBQSR", final_section)
    /\ pc' = "done"
    /\ UNCHANGED notFinalVars

\* ---- the final sections the check is run on

MaxMarks == 4

RECURSIVE MarkLines(_)
\* at most n lines with one marker word each
MarkLines(n) ==
    IF n = 0 THEN {<<>>}
    ELSE LET shorter == MarkLines(n - 1)
         IN shorter \cup {Append(lines, <<m>>) : lines \in shorter, m \in Markers}

\* the lines that are not inspected (one of them with or without a marker
\* word), then the lines with the marker words
FinalSections(st) ==
    {<<head>> \o (IF st = "BaseRecalibrator" THEN <<<<>>, <<>>>> ELSE <<>>) \o lines :
        head \in {<<>>, <<"Metaspace">>},
        lines \in MarkLines(MaxMarks)}

InitFinal ==
    /\ stage \in {"BaseRecalibrator", "ApplyBQSR"}
    /\ pc = "ready"
    /\ log_file = <<>>
    /\ row_idx = 0
    /\ bools = NoBools
    /\ global_flags = <<>>
    /\ baserecalibrator = <<>>
    /\ applybqsr = <<>>
    /\ haplotype = <<>>
    /\ featuremanager = <<>>
    /\ progressmeter = <<>>
    /\ warning = <<>>
    /\ final_section \in FinalSections(stage)
    /\ process = <<>>
    /\ mem_pestat = <<>>
    /\ mem_process_seqs = <<>>
    /\ IdleChecks
    /\ result = None
    /\ driver = None

NextFinal ==
    \/ BaseRecalibrator_check_final_section_others
    \/ ApplyBQSR_check_final_section_others

SpecFinal == InitFinal /\ [][NextFinal]_vars

\* ---- claims

\* C15 (as stated): the check passes exactly when each of PSYoungGen,
\* ParOldGen and Metaspace occurs in the inspected lines of the final section.
C15_PassesIffEachMarkerPresent ==
    pc = "done" =>
        (raised = NoError
            <=> \A m \in Markers :
                   \E k \in 1..Len(Inspected(stage, final_section)) :
                       m \in Range(Inspected(stage, final_section)[k]))

(***************************************************************************)
(* SamSort.check_unmated: line index 4 of the samblaster log,               *)
(*   samblaster: Found 0 of 200000 (0.000%) total read ids are marked ...   *)
(* The line is kept as the numbers written on it, in the order of writing.  *)
(***************************************************************************)

\* int(re.findall(r'\d+', line)[0]): the first run of digits of the line is
\* the digits of the first number before any point, without a sign
FirstDigits(line) == line.numbers[1].whole

\* float(re.findall(r"[-+]?\d*\.\d+|\d+", line)[-1]), in thousandths
LastFloat(line) == NumsOf(line)[Len(line.numbers)]

\* a condition that asks for both faults at once
UnmatedFaultBoth(count, percentage) == count # 0 /\ percentage # 0

\* the condition of the `if` of check_unmated
UnmatedFault(count, percentage) == count # 0 \/ percentage # 0

notUnmatedVars ==
    <<stage, driver, result, log_file, row_idx, bools, global_flags, baserecalibrator, applybqsr,
      haplotype, featuremanager, progressmeter, warning, final_section, process,
      mem_pestat, mem_process_seqs, log_template, paired, dict_, dups, chr_count,
      chr_time, chr_reads, kwargs, failing, executed>>

SamSort_check_unmated ==
    /\ stage = "SamSort" /\ pc = "ready"
    /\ IF Len(log_file) < 5
       THEN raised' = [kind |-> "IndexError", check |-> "check_unmated"]
       ELSE IF log_file[5].numbers = <<>>
       THEN raised' = [kind |-> "IndexError", check |-> "check_unmated"]
       ELSE IF UnmatedFault(FirstDigits(log_file[5]), LastFloat(log_file[5]))
       THEN raised' = [kind |-> "Exception", check |-> "check_unmated",
                       msg |-> "check_unmated", tags |-> {}]
       ELSE raised' = NoError
    /\ pc' = "unmated"
    /\ UNCHANGED notUnmatedVars

\* ---- the logs the check is run on

MaxUnmated == 3

\* 0, 200000 (kept as 2), 0.000, 0.001, -0.000 and -2
UnmatedNumbers ==
    {Written("", 0, FALSE, 0), Written("", 2, FALSE, 0), Written("", 0, TRUE, 0),
     Written("", 0, TRUE, 1), Written("-", 0, TRUE, 0), Written("-", 2, FALSE, 0)}

RECURSIVE UnmatedLines(_)
\* the lines with at most n numbers
UnmatedLines(n) ==
    IF n = 0 THEN {<<>>}
    ELSE LET shorter == UnmatedLines(n - 1)
         IN shorter \cup {Append(line, w) : line \in shorter, w \in UnmatedNumbers}

\* a log cut before line index 4, or a log with that line
UnmatedLogs ==
    {[k \in 1..4 |-> TextLine]}
        \cup {[k \in 1..4 |-> TextLine] \o <<[cells |-> <<>>, numbers |-> numbers]>> :
                 numbers \in UnmatedLines(MaxUnmated)}

InitUnmated ==
    /\ stage = "SamSort"
    /\ pc = "ready"
    /\ log_file \in UnmatedLogs
    /\ paired \in BOOLEAN
    /\ row_idx = 0
    /\ bools = NoBools
    /\ EmptySections
    /\ log_template = <<>>
    /\ dict_ = None
    /\ dups = None
    /\ chr_count = <<>>
    /\ chr_time = <<>>
    /\ chr_reads = <<>>
    /\ kwargs = {}
    /\ failing = {}
    /\ executed = <<>>
    /\ raised = NoError
    /\ result = None
    /\ driver = None

NextUnmated == SamSort_check_unmated

SpecUnmated == InitUnmated /\ [][NextUnmated]_vars

\* ---- claims

\* the line at index 4 is there and has a number on it
HasUnmatedLine == Len(log_file) >= 5 /\ log_file[5].numbers # <<>>

\* C16: check_unmated passes exactly when line index 4 of the log has its
\* first integer (the count) equal to 0 and its last number (the percentage)
\* equal to 0.000; otherwise it raises, with the message of check_unmated
\* when the line has a number on it.
C16_UnmatedPassesIffCountAndPercentageZero ==
    pc = "unmated" =>
        /\ raised = NoError
              <=> /\ HasUnmatedLine
                  /\ log_file[5].numbers[1].whole = 0
                  /\ ValueOf(log_file[5].numbers[Len(log_file[5].numbers)]) = 0
        /\ (HasUnmatedLine /\ raised # NoError) =>
              (raised.kind = "Exception" /\ raised.msg = "check_unmated")

\* '0 of 200000 (0.000%)' has passed
C16_Witness ==
    /\ pc = "unmated"
    /\ HasUnmatedLine
    /\ log_file[5].numbers
          = <<Written("", 0, FALSE, 0), Written("", 2, FALSE, 0), Written("", 0, TRUE, 0)>>
    /\ raised = NoError

(***************************************************************************)
(* Fastqc.check_lines.  The two logs of the sample are kept in log_file as  *)
(* a record of log_file_1 and log_file_2; each is either not read (the      *)
(* value False of read_log) or the list of its lines.                       *)
(***************************************************************************)

\* log_file_1 = False
Unread == [read |-> FALSE, lines |-> <<>>]

\* log_file_1 = f.readlines()
ReadLines(lines) == [read |-> TRUE, lines |-> lines]

\* `if self.log_file_1:` -- False and the empty list are both skipped
Truthy(file) == file.read /\ file.lines # <<>>

\* (len(log) != 21) & (len(log) != 22)
WrongLines(file) == Len(file.lines) # 21 /\ Len(file.lines) # 22

notLinesVars ==
    <<stage, driver, result, log_file, row_idx, bools, global_flags, baserecalibrator, applybqsr,
      haplotype, featuremanager, progressmeter, warning, final_section, process,
      mem_pestat, mem_process_seqs, log_template, paired, dict_, dups, chr_count,
      chr_time, chr_reads, kwargs, failing, executed>>

Fastqc_check_lines ==
    /\ stage = "Fastqc" /\ pc = "ready"
    /\ raised' =
          IF Truthy(log_file.log_file_1) /\ WrongLines(log_file.log_file_1)
          THEN [kind |-> "Exception", check |-> "check_lines", msg |-> "check_lines",
                end |-> "R1"]
          ELSE IF Truthy(log_file.log_file_2) /\ WrongLines(log_file.log_file_2)
          THEN [kind |-> "Exception", check |-> "check_lines", msg |-> "check_lines",
                end |-> "R2"]
          ELSE NoError
    /\ pc' = "done"
    /\ UNCHANGED notLinesVars

\* ---- the logs the check is run on

MaxOff == 3

\* a log that could not be opened, an empty log, and the logs within MaxOff
\* lines of 21
FastqcLogs ==
    {Unread, ReadLines(<<>>)}
        \cup {ReadLines([k \in 1..n |-> TextLine]) : n \in (21 - MaxOff)..(21 + MaxOff)}

InitLines ==
    /\ stage = "Fastqc"
    /\ pc = "ready"
    /\ \E one \in FastqcLogs, two \in FastqcLogs :
          log_file = [log_file_1 |-> one, log_file_2 |-> two]
    /\ paired = FALSE
    /\ row_idx = 0
    /\ bools = NoBools
    /\ EmptySections
    /\ log_template = <<>>
    /\ dict_ = None
    /\ dups = None
    /\ chr_count = <<>>
    /\ chr_time = <<>>
    /\ chr_reads = <<>>
    /\ kwargs = {}
    /\ failing = {}
    /\ executed = <<>>
    /\ raised = NoError
    /\ result = None
    /\ driver = None

NextLines == Fastqc_check_lines

SpecLines == InitLines /\ [][NextLines]_vars

\* ---- claims

\* C17 (as stated): check_lines passes exactly when every log that was read
\* has exactly 21 lines, and otherwise raises for the first read end whose
\* log has another length.
C17_PassesIffEveryReadLogHas21Lines ==
    pc = "done" =>
        LET bad(file) == file.read /\ Len(file.lines) # 21
        IN /\ raised = NoError <=> (~bad(log_file.log_file_1) /\ ~bad(log_file.log_file_2))
           /\ bad(log_file.log_file_1) =>
                 (raised.kind = "Exception" /\ raised.end = "R1")

(***************************************************************************)
(* single_paired.  The argument table_path is kept in kwargs: it names a   *)
(* csv table (the column Sample, row by row), a directory (the number of   *)
(* its *.gz files) or nothing that exists.  The sample of the validator is *)
(* "sample"; row_idx counts the calls made.                                *)
(***************************************************************************)

CsvTable(rows) == [kind |-> "csv", rows |-> rows, files |-> 0]

Directory(files) == [kind |-> "directory", rows |-> <<>>, files |-> files]

Missing == [kind |-> "missing", rows |-> <<>>, files |-> 0]

\* len(df[df.Sample == self.sample])
Matching(source) == Cardinality({k \in 1..Len(source.rows) : source.rows[k] = "sample"})

\* what pd.read_csv(table_path) raises, if anything
ReadCsvError(source) ==
    CASE source.kind = "csv" -> NoError
      [] source.kind = "directory" -> [kind |-> "IsADirectoryError"]
      [] source.kind = "missing" -> [kind |-> "FileNotFoundError"]

\* Parent.single_paired, and the body of the `try` of Bwa.single_paired
CsvPaired(source) == Matching(source) = 2

\* the `except IsADirectoryError` of Bwa.single_paired
GlobPaired(source) == source.files = 2

notPairedVars ==
    <<stage, driver, result, log_file, bools, global_flags, baserecalibrator, applybqsr,
      haplotype, featuremanager, progressmeter, warning, final_section, process,
      mem_pestat, mem_process_seqs, log_template, dict_, dups, chr_count,
      chr_time, chr_reads, kwargs, failing, executed>>

MaxCalls == 2

Parent_single_paired ==
    /\ stage \in {"BaseRecalibrator", "ApplyBQSR", "HaploType"}
    /\ pc \in {"ready", "called"} /\ row_idx < MaxCalls /\ raised = NoError
    /\ IF ReadCsvError(kwargs.table_path) = NoError
       THEN paired' = CsvPaired(kwargs.table_path) /\ raised' = NoError
       ELSE paired' = paired /\ raised' = ReadCsvError(kwargs.table_path)
    /\ pc' = "called"
    /\ row_idx' = row_idx + 1
    /\ UNCHANGED notPairedVars

SamSort_single_paired ==
    /\ stage = "SamSort"
    /\ pc \in {"ready", "called"} /\ row_idx < MaxCalls /\ raised = NoError
    /\ IF ReadCsvError(kwargs.table_path) = NoError
       THEN paired' = CsvPaired(kwargs.table_path) /\ raised' = NoError
       ELSE paired' = paired /\ raised' = ReadCsvError(kwargs.table_path)
    /\ pc' = "called"
    /\ row_idx' = row_idx + 1
    /\ UNCHANGED notPairedVars

Bwa_single_paired ==
    /\ stage = "Bwa"
    /\ pc \in {"ready", "called"} /\ row_idx < MaxCalls /\ raised = NoError
    /\ LET error == ReadCsvError(kwargs.table_path)
       IN CASE error = NoError ->
                 paired' = CsvPaired(kwargs.table_path) /\ raised' = NoError
            [] error.kind = "IsADirectoryError" ->
                 paired' = GlobPaired(kwargs.table_path) /\ raised' = NoError
            [] OTHER ->
                 paired' = paired /\ raised' = error
    /\ pc' = "called"
    /\ row_idx' = row_idx + 1
    /\ UNCHANGED notPairedVars

\* ---- the metadata the method is called on

MaxRows == 3

RECURSIVE SampleColumns(_)
\* the columns Sample of at most n rows
SampleColumns(n) ==
    IF n = 0 THEN {<<>>}
    ELSE LET shorter == SampleColumns(n - 1)
         IN shorter \cup {Append(rows, name) : rows \in shorter, name \in {"sample", "other"}}

Sources ==
    {CsvTable(rows) : rows \in SampleColumns(MaxRows)}
        \cup {Directory(n) : n \in 0..MaxRows}
        \cup {Missing}

InitPaired ==
    /\ stage \in {"Bwa", "SamSort", "HaploType"}
    /\ pc = "ready"
    /\ \E source \in Sources : kwargs = [table_path |-> source]
    /\ paired = None
    /\ log_file = <<>>
    /\ row_idx = 0
    /\ bools = NoBools
    /\ EmptySections
    /\ log_template = <<>>
    /\ dict_ = None
    /\ dups = None
    /\ chr_count = <<>>
    /\ chr_time = <<>>
    /\ chr_reads = <<>>
    /\ failing = {}
    /\ executed = <<>>
    /\ raised = NoError
    /\ result = None
    /\ driver = None

NextPaired ==
    \/ Parent_single_paired
    \/ SamSort_single_paired
    \/ Bwa_single_paired

SpecPaired == InitPaired /\ [][NextPaired]_vars

\* ---- claims

\* the number of entries the metadata source yields for the sample
Entries ==
    IF kwargs.table_path.kind = "directory"
    THEN kwargs.table_path.files
    ELSE Matching(kwargs.table_path)

\* C18 (as stated): a call of single_paired that returns gives true exactly
\* when the metadata source yields 2 entries for the sample and false
\* exactly when it yields 1.
C18_TrueIffTwoFalseIffOne ==
    (pc = "called" /\ raised = NoError) =>
        /\ paired = TRUE <=> Entries = 2
        /\ paired = FALSE <=> Entries = 1

(***************************************************************************)
(* check_progressmeter of the three GATK stages.  A row of the section     *)
(* carries both what check_progressmeter_chromosomes reads of it (chrom,   *)
(* chrom_id, minutes, regions) and what check_progressmeter_start_end      *)
(* reads of it (start, phrases, numbers).                                  *)
(***************************************************************************)

\* BaseRecalibrator.check_progressmeter: chromosomes, then start_end
BaseRecalibrator_check_progressmeter ==
    /\ stage = "BaseRecalibrator" /\ pc = "ready"
    /\ \/ ChromosomesRaise
       \/ /\ ChromosomesPass
          /\ UNCHANGED statVars
          /\ raised' = StartEndOutcome(progressmeter)
    /\ pc' = "done"
    /\ UNCHANGED notChromVars

\* HaploType.check_progressmeter: chromosomes, then start_end
HaploType_check_progressmeter ==
    /\ stage = "HaploType" /\ pc = "ready"
    /\ \/ ChromosomesRaise
       \/ /\ ChromosomesPass
          /\ UNCHANGED statVars
          /\ raised' = StartEndOutcome(progressmeter)
    /\ pc' = "done"
    /\ UNCHANGED notChromVars

\* ApplyBQSR.check_progressmeter: the call of check_progressmeter_chromosomes
\* is commented out, start_end alone is run
ApplyBQSR_check_progressmeter ==
    /\ stage = "ApplyBQSR" /\ pc = "ready"
    /\ raised' = StartEndOutcome(progressmeter)
    /\ pc' = "done"
    /\ UNCHANGED statVars
    /\ UNCHANGED notChromVars

\* ---- the sections the three are run on

\* the rows of the section with the fields start_end reads: the first row
\* starts (or not) with the start text, the last row holds the end text
\* `phrases` times and the numbers written on it
Metered(section, start, phrases, numbers) ==
    [k \in 1..Len(section) |->
        [chrom |-> section[k].chrom, chrom_id |-> section[k].chrom_id,
         minutes |-> section[k].minutes, regions |-> section[k].regions,
         start |-> (k = 1 /\ start),
         phrases |-> IF k = Len(section) THEN phrases ELSE 0,
         numbers |-> IF k = Len(section) THEN numbers ELSE <<>>]]

\* labels left out of the section
Dropped == {chr_temp[1], chr_temp[2], chr_temp[Len(chr_temp)]}

MeterSections ==
    {Metered(<<TextRow, TextRow>>
                 \o BodyRows(WithExtra(Without(chr_temp, drop), extra), neg)
                 \o <<TextRow>>,
             start, phrases, numbers) :
        drop \in SmallSubsets(Dropped, MaxMissing),
        extra \in {<<>>, <<"chrY", "back">>},
        neg \in {"none", "regions"},
        start \in BOOLEAN,
        phrases \in {0, 1},
        numbers \in {<<Written("", 2, TRUE, 500), Written("", 3, FALSE, 0)>>,
                     <<Written("", 0, FALSE, 0)>>}}

InitMeter ==
    /\ stage \in GatkStages
    /\ pc = "ready"
    /\ log_file = <<>>
    /\ row_idx = 0
    /\ bools = NoBools
    /\ global_flags = <<>>
    /\ baserecalibrator = <<>>
    /\ applybqsr = <<>>
    /\ haplotype = <<>>
    /\ featuremanager = <<>>
    /\ progressmeter \in MeterSections
    /\ warning = <<>>
    /\ final_section = None
    /\ process = <<>>
    /\ mem_pestat = <<>>
    /\ mem_process_seqs = <<>>
    /\ IdleChecks
    /\ result = None
    /\ driver = None

NextMeter ==
    \/ BaseRecalibrator_check_progressmeter
    \/ ApplyBQSR_check_progressmeter
    \/ HaploType_check_progressmeter

SpecMeter == InitMeter /\ [][NextMeter]_vars

\* ---- claims

\* C19 (as stated): in each of the three GATK stages check_progressmeter
\* raises when the distinct chromosome labels of the progress-meter section
\* differ from the canonical reference list.
C19_EveryStageRaisesOnOtherLabels ==
    (pc = "done" /\ FromKeys(Chromosome(progressmeter)) # chr_temp) =>
        raised # NoError

(***************************************************************************)
(* Bwa.__init__: the log is read, the three sections are emptied and       *)
(* split_log fills them (InitSplit and Bwa_split_log above).               *)
(***************************************************************************)

\* the rows of `list` that start with `prefix`, in the order of `list`
StartingWith(list, prefix) ==
    LET starts(row) == row.prefix = prefix
    IN SelectSeq(list, starts)

\* the rows split_log has gone through
RowsRead == SubSeq(log_file, 1, row_idx)

\* C20: constructing a Bwa validator classifies the whole log: while
\* split_log runs, and once it has returned, process, mem_pestat and
\* mem_process_seqs are the subsequences, in log order, of the rows read so
\* far that start with '[M::process]', '[M::mem_pestat]' and
\* '[M::mem_process_seqs]'; it returns having read every row of log_file,
\* and a row with none of the three prefixes is in none of the sections.
C20_SectionsAreThePrefixSubsequences ==
    stage = "Bwa" =>
        /\ process = StartingWith(RowsRead, "[M::process]")
        /\ mem_pestat = StartingWith(RowsRead, "[M::mem_pestat]")
        /\ mem_process_seqs = StartingWith(RowsRead, "[M::mem_process_seqs]")
        /\ pc = "ready" => RowsRead = log_file
        /\ \A k \in 1..Len(log_file) :
              log_file[k].prefix = "none" =>
                 log_file[k] \notin Range(process \o mem_pestat \o mem_process_seqs)

\* a constructed validator whose log had a row for mem_process_seqs, a row
\* for process behind it, and a row of neither kind
C20_Witness ==
    /\ stage = "Bwa" /\ pc = "ready"
    /\ Len(log_file) = 3
    /\ Len(process) = 1 /\ Len(mem_process_seqs) = 1
    /\ mem_process_seqs[1].no < process[1].no
    /\ \E k \in 1..3 : log_file[k].prefix = "none"

(***************************************************************************)
(* Further claims on Bwa.check_mem_pestat (SpecPestat above).              *)
(***************************************************************************)

\* C24 (as stated): whatever follows an analysis row inside its batch,
\* check_enough_pairs ends with its own error: it never leaves the check
\* with an out-of-range index.
C24_EnoughPairsRaisesItsOwnError ==
    (pc = "done" /\ raised # NoError /\ raised.check = "check_enough_pairs") =>
        raised.kind = "Exception"

\* the header row of a batch with these counts
Header(counts) == PestatRow("candidate", None, counts)

\* check_not_enough_pairs lets a skip row for orientation o pass
SkipAccepted(counts, o) ==
    ~NotEnoughRaises(<<Header(counts), PestatRow("skip", o, None)>>)

\* check_enough_pairs lets an analysis row for orientation o, followed by
\* its four summary rows, pass
AnalyzingAccepted(counts, o) ==
    EnoughAt(<<Header(counts), PestatRow("analyzing", o, None)>> \o SummaryRows(Summary),
             2, counts) = "none"

\* C28 (as stated): for a paired sample and every pair count met in the
\* section, exactly one of the two rows is accepted: the skip row or the
\* analysis row of that orientation, the count equal to the threshold
\* included.
C28_ExactlyOneDecisionPerCount ==
    (pc = "done" /\ paired) =>
        \A k \in 1..Len(mem_pestat) :
            mem_pestat[k].kind = "candidate" =>
                \A o \in Orientations :
                    SkipAccepted(mem_pestat[k].counts, o)
                        # AnalyzingAccepted(mem_pestat[k].counts, o)

(***************************************************************************)
(* A further claim on the engine checks of HaploType (SpecOffsets above).  *)
(***************************************************************************)

\* C29 (as stated): when check_len passes, check_haplotype_engine and
\* check_haplotype_filters find a row at every offset they read: the checks
\* pass or end with their own tagged error.
C29_LenPassedOffsetsInside ==
    (stage = "HaploType" /\ pc = "done"
        /\ LenOutcome("check_len", haplotype, 32) = NoError) =>
        raised.kind \in {"none", "Exception"}

(***************************************************************************)
(* Parent.distance(dict_, correct_dist_dict_).  A dict is the list of its  *)
(* entries in insertion order.  The value observed for a key is kept as a  *)
(* number that names the key (its place in the reference, 1 .. 24), the    *)
(* reference value as 100 more, so that a term p * log2(p / q) of the sum  *)
(* is known by the pair <<p, q>>.  np.nansum leaves out the terms with     *)
(* p = 0 (0 * log2(0) is nan), and the value returned is a function of the *)
(* remaining terms, which `result` holds.                                  *)
(***************************************************************************)

\* the keys of the reference dicts true_*_chr_*, in the order they are written
RefKeys ==
    <<"1", "2", "3", "4", "5", "6", "7", "8", "9", "10", "11", "12", "13", "14", "15",
      "16", "17", "18", "19", "20", "21", "22", "X", "Y">>

PlaceIn(list, x) == CHOOSE k \in 1..Len(list) : list[k] = x

\* a reference dict
correct_dist_dict_ == [k \in 1..Len(RefKeys) |-> [key |-> RefKeys[k], val |-> 100 + k]]

\* list(d.values())
Values(d) == [k \in 1..Len(d) |-> d[k].val]

RECURSIVE FillMissing(_, _, _)
\* the for loop of distance: every key of the reference that dict_ lacks is
\* added to dict_ with the value 0
FillMissing(d, correct, k) ==
    IF k > Len(correct) THEN d
    ELSE FillMissing(IF correct[k].key \in DictKeys(d) THEN d
                     ELSE Append(d, [key |-> correct[k].key, val |-> 0]),
                     correct, k + 1)

\* the terms kept by np.nansum([p[i] * np.log2(p[i] / q[i]) for i in range(len(p))])
Terms(p, q) ==
    LET kept == {i \in 1..Len(p) : p[i] # 0}
    IN {<<i, p[i], q[i]>> : i \in kept}

\* the terms without the place they were met at
TermBag(terms) ==
    [pair \in {<<t[2], t[3]>> : t \in terms} |->
        Cardinality({t \in terms : <<t[2], t[3]>> = pair})]

notDistanceVars ==
    <<stage, driver, log_file, row_idx, bools, global_flags, baserecalibrator, applybqsr,
      haplotype, featuremanager, progressmeter, warning, final_section, process,
      mem_pestat, mem_process_seqs, log_template, paired, dups, chr_count,
      chr_time, chr_reads, kwargs, failing, executed>>

Parent_distance ==
    /\ stage \in GatkStages /\ pc = "ready"
    /\ LET filled == FillMissing(dict_, correct_dist_dict_, 1)
           p == Values(filled)
           q == Values(correct_dist_dict_)
       IN /\ dict_' = filled
          /\ IF Len(p) > Len(q)
             THEN /\ raised' = [kind |-> "IndexError", check |-> "distance"]
                  /\ result' = None
             ELSE /\ raised' = NoError
                  /\ result' = TermBag(Terms(p, q))
    /\ pc' = "done"
    /\ UNCHANGED notDistanceVars

\* ---- the observed dicts the method is called on

MaxOmitted == 2

\* the observed dict with these keys, in this order
ObservedOf(keys) ==
    [k \in 1..Len(keys) |->
        [key |-> keys[k],
         val |-> IF keys[k] \in Range(RefKeys) THEN PlaceIn(RefKeys, keys[k]) ELSE 99]]

\* the reference keys with some left out, two neighbours met in the other
\* order, and the key of a label the reference does not have
ObservedDicts ==
    {ObservedOf(WithExtra(Swapped(Without(RefKeys, drop), swap), extra)) :
        drop \in SmallSubsets({"1", "22", "Y"}, MaxOmitted),
        swap \in {0, 1, 2, 20},
        extra \in {<<>>, <<"M", "back">>, <<"M", "front">>}}

InitDistance ==
    /\ stage = "HaploType"
    /\ pc = "ready"
    /\ dict_ \in ObservedDicts
    /\ log_file = <<>>
    /\ row_idx = 0
    /\ bools = NoBools
    /\ EmptySections
    /\ log_template = <<>>
    /\ paired = FALSE
    /\ dups = None
    /\ chr_count = <<>>
    /\ chr_time = <<>>
    /\ chr_reads = <<>>
    /\ kwargs = {}
    /\ failing = {}
    /\ executed = <<>>
    /\ raised = NoError
    /\ result = None
    /\ driver = None

NextDistance == Parent_distance

SpecDistance == InitDistance /\ [][NextDistance]_vars

\* ---- claims

\* the terms of a comparison key by key: the value observed for a key with
\* the reference value of that key
KeyWiseTerms(d) ==
    TermBag({<<k, d[k].val, correct_dist_dict_[PlaceIn(RefKeys, d[k].key)].val>> :
                k \in {j \in 1..Len(d) : d[j].key \in Range(RefKeys) /\ d[j].val # 0}})

\* C25 (as stated): distance returns, also when the observed dict has a key
\* the reference lacks, and what it returns is made of the terms that
\* compare the value observed for a key with the reference value of that
\* same key, in whatever order the keys were inserted.
C25_DistanceComparesKeyByKey ==
    pc = "done" =>
        /\ raised = NoError
        /\ result = KeyWiseTerms(dict_)

(***************************************************************************)
(* A constructed validator on which methods are called one after the      *)
(* other, in any order, whether the call before returned or raised.       *)
(* `executed` lists the methods called; `raised` is the exception of the  *)
(* last call and `result` the value it returned.                          *)
(***************************************************************************)

\* what a method does to log_file, the template and the sections: none of
\* the check methods, nor progressmeter_analysis, assigns or mutates them
SectionsDrained ==
    /\ progressmeter' = IF progressmeter = <<>> THEN <<>> ELSE Tail(progressmeter)
    /\ mem_pestat' = IF mem_pestat = <<>> THEN <<>> ELSE Tail(mem_pestat)
    /\ log_file' = IF log_file = <<>> THEN <<>> ELSE Tail(log_file)
    /\ UNCHANGED <<log_template, global_flags, baserecalibrator, applybqsr, haplotype,
                   featuremanager, warning, final_section, process, mem_process_seqs>>

SectionsKept == UNCHANGED <<log_file, log_template, sectionVars>>

\* raw = max(dict_.values()); factor = target / raw
NormalizeOutcome(d) ==
    IF d = <<>> THEN [kind |-> "ValueError", check |-> "compute_score"]
    ELSE IF \A k \in 1..Len(d) : d[k].val <= 0 /\ \E j \in 1..Len(d) : d[j].val = 0
    THEN [kind |-> "ZeroDivisionError", check |-> "compute_score"]
    ELSE NoError

\* compute_score on the three statistics: normalize is applied to chr_count,
\* chr_time and chr_reads in turn (entropy, then std, then distance); the
\* first call that raises leaves the method
ScoreOutcome(count, time, reads) ==
    FirstError(<<NormalizeOutcome(count), NormalizeOutcome(time), NormalizeOutcome(reads)>>)

callVars == <<stage, pc, driver, row_idx, bools, paired, kwargs, failing>>

CanCall == pc = "ready" /\ Len(executed) < MaxCalls

\* progressmeter_analysis(title=None)
Parent_progressmeter_analysis ==
    /\ stage \in GatkStages /\ CanCall
    /\ AnalysisEffect
    /\ raised' = NoError
    /\ result' = None
    /\ executed' = Append(executed, "progressmeter_analysis")
    /\ SectionsKept
    /\ UNCHANGED <<callVars, dict_, dups>>

\* check_progressmeter_chromosomes, called at any time
Parent_check_progressmeter_chromosomes_call ==
    /\ stage \in GatkStages /\ CanCall
    /\ \/ /\ ChromosomesPass
          /\ raised' = NoError
          /\ UNCHANGED statVars
       \/ ChromosomesRaise
    /\ result' = None
    /\ executed' = Append(executed, "check_progressmeter_chromosomes")
    /\ SectionsKept
    /\ UNCHANGED <<callVars, dict_, dups>>

\* the end of BaseRecalibrator.check_log and of HaploType.check_log, from
\* check_progressmeter on: check_progressmeter(), progressmeter_analysis(
\* title=None) and, score being True, return compute_score(...).  The score
\* is kept as the word "score": its value decides nothing here.
Parent_check_log_call ==
    /\ stage \in {"BaseRecalibrator", "HaploType"} /\ CanCall
    /\ \/ /\ ChromosomesRaise
          /\ result' = None
       \/ /\ ChromosomesPass
          /\ StartEndOutcome(progressmeter) # NoError
          /\ raised' = StartEndOutcome(progressmeter)
          /\ result' = None
          /\ UNCHANGED statVars
       \/ /\ ChromosomesPass
          /\ StartEndOutcome(progressmeter) = NoError
          /\ AnalysisEffect
          /\ raised' = ScoreOutcome(AnalysisFold(chr_count, Body(progressmeter), 1, "count"),
                                    AnalysisFold(chr_time, Body(progressmeter), 1, "minutes"),
                                    AnalysisFold(chr_reads, Body(progressmeter), 1, "regions"))
          /\ result' = IF raised' = NoError THEN "score" ELSE None
    /\ executed' = Append(executed, "check_log")
    /\ SectionsKept
    /\ UNCHANGED <<callVars, dict_, dups>>

\* the end of ApplyBQSR.check_log: check_progressmeter() alone, the call of
\* progressmeter_analysis being commented out
ApplyBQSR_check_log_call ==
    /\ stage = "ApplyBQSR" /\ CanCall
    /\ raised' = StartEndOutcome(progressmeter)
    /\ result' = None
    /\ executed' = Append(executed, "check_log")
    /\ SectionsKept
    /\ UNCHANGED <<callVars, dict_, dups, statVars>>

\* SamSort.check_table_sums, called at any time
SamSort_check_table_sums_call ==
    /\ stage = "SamSort" /\ CanCall
    /\ TableSumsEffect
    /\ result' = None
    /\ executed' = Append(executed, "check_table_sums")
    /\ SectionsKept
    /\ UNCHANGED <<callVars, dict_, statVars>>

\* SamSort.check_removals, called at any time
SamSort_check_removals_call ==
    /\ stage = "SamSort" /\ CanCall
    /\ raised' = RemovalsOutcome(log_file, dups, "check_table_sums" \in Range(executed))
    /\ result' = None
    /\ executed' = Append(executed, "check_removals")
    /\ SectionsKept
    /\ UNCHANGED <<callVars, dict_, dups, statVars>>

\* Bwa.check_mem_pestat, called at any time
Bwa_check_mem_pestat_call ==
    /\ stage = "Bwa" /\ CanCall
    /\ \/ /\ ~paired
          /\ raised' = NoError
          /\ dict_' = dict_
       \/ /\ paired
          /\ LET out == PestatLoop(mem_pestat, batch_nums(mem_pestat), 0, dict_)
             IN /\ raised' = out.raised
                /\ dict_' = out.dict_
    /\ result' = None
    /\ executed' = Append(executed, "check_mem_pestat")
    /\ SectionsKept
    /\ UNCHANGED <<callVars, dups, statVars>>

\* ---- the validators the methods are called on

\* the rows with one field put to 0 on every row
Quiet(rows, field) ==
    [k \in 1..Len(rows) |->
        [chrom |-> rows[k].chrom, chrom_id |-> rows[k].chrom_id,
         minutes |-> IF field = "minutes" THEN 0 ELSE rows[k].minutes,
         regions |-> IF field = "regions" THEN 0 ELSE rows[k].regions]]

\* sections that start and end as they should; every chromosome or all but
\* chr1; the time or the reads at 0 on every row, or a negative read count
CallSections ==
    {Metered(<<TextRow, TextRow>>
                 \o Quiet(BodyRows(Without(chr_temp, drop), neg), quiet)
                 \o <<TextRow>>,
             TRUE, 1, <<Written("", 2, TRUE, 500)>>) :
        drop \in {{}, {"chr1"}},
        neg \in {"none", "regions"},
        quiet \in {"none", "minutes", "regions"}}

\* last lines that report 0, 2 or 3 removed duplicates
CallLines ==
    {<<Written("", n, FALSE, 0), Written("", 2, TRUE, 500)>> : n \in {0, 2, 3}}

InitCalls ==
    /\ stage \in GatkStages \cup {"SamSort", "Bwa"}
    /\ pc = "ready"
    /\ progressmeter \in IF stage \in GatkStages THEN CallSections ELSE {<<>>}
    /\ mem_pestat \in IF stage = "Bwa" THEN PestatSections(MaxBatches) ELSE {<<>>}
    /\ paired \in IF stage = "Bwa" THEN BOOLEAN ELSE {FALSE}
    /\ log_file \in IF stage = "SamSort"
                    THEN {[k \in 1..8 |-> TextLine]
                              \o [k \in 1..Len(table) |-> [cells |-> table[k]]]
                              \o <<TextLine, [cells |-> <<>>, numbers |-> numbers]>> :
                              table \in RemovalTables, numbers \in CallLines}
                    ELSE {<<>>}
    /\ row_idx = 0
    /\ bools = NoBools
    /\ global_flags = <<>>
    /\ baserecalibrator = <<>>
    /\ applybqsr = <<>>
    /\ haplotype = <<>>
    /\ featuremanager = <<>>
    /\ warning = <<>>
    /\ final_section = None
    /\ process = <<>>
    /\ mem_process_seqs = <<>>
    /\ log_template = <<>>
    /\ dict_ = None
    /\ dups = None
    /\ chr_count = <<>>
    /\ chr_time = <<>>
    /\ chr_reads = <<>>
    /\ kwargs = {}
    /\ failing = {}
    /\ executed = <<>>
    /\ raised = NoError
    /\ result = None
    /\ driver = None

NextCalls ==
    \/ Parent_progressmeter_analysis
    \/ Parent_check_progressmeter_chromosomes_call
    \/ Parent_check_log_call
    \/ ApplyBQSR_check_log_call
    \/ SamSort_check_table_sums_call
    \/ SamSort_check_removals_call
    \/ Bwa_check_mem_pestat_call

SpecCalls == InitCalls /\ [][NextCalls]_vars

\* ---- claims

C22_ScoreNeverRaises ==
    (executed # <<>> /\ executed[Len(executed)] = "check_log" /\ raised # NoError) =>
        raised.check # "compute_score"

\* the fold of the analysis over the section, made once
FoldedOnce(field) == AnalysisFold(<<>>, Body(progressmeter), 1, field)

\* C26 (as stated): whatever calls of progressmeter_analysis,
\* check_progressmeter_chromosomes and check_log were made on the instance,
\* the statistic, once built, is the fold over the body rows made once:
\* chr_count counts the rows of each label and chr_time and chr_reads add
\* their time and read fields.
C26_StatisticIsTheSingleFold ==
    (stage \in GatkStages /\ chr_count # <<>>) =>
        /\ chr_count = FoldedOnce("count")
        /\ chr_time = FoldedOnce("minutes")
        /\ chr_reads = FoldedOnce("regions")

\* the first number of the last line is the duplicate count of the table
\* and no number of the line is negative
ConsistentRemovals ==
    /\ ValueOf(LastNumbers[1]) = TotalDups
    /\ \A k \in 1..Len(LastNumbers) : ValueOf(LastNumbers[k]) >= 0

\* C27 (as stated): on a log with a consistent table and removal summary,
\* check_removals passes whether or not check_table_sums was called before
\* it on the instance.
C27_RemovalsPassesInAnyOrder ==
    (stage = "SamSort" /\ executed # <<>>
        /\ executed[Len(executed)] = "check_removals" /\ ConsistentRemovals) =>
        raised = NoError

\* ---------------------------------------------------------------------
\* The batch driver (test.py): for each center, for each sample of the
\* center, for each stage named in --checks, construct the validator of the
\* stage and call its check_log.
\* ---------------------------------------------------------------------

\* centers of the batch, samples listed per center (one study per center)
MaxCenters == 2
MaxSamples == 2
\* missing or unreadable files and failing checks met during one batch
MaxFailures == 2

\* the stage branches of the loop body, in the order of the code
Branches == <<"bwa", "fastqc", "samsort", "baserecalibrator", "applybqsr", "haplotype">>

\* branches whose constructor call sits in try / except FileNotFoundError
Guarded == {"samsort", "baserecalibrator", "applybqsr", "haplotype"}

\* values of the --checks argument
ChecksChoices ==
    { Range(Branches), {"samsort", "haplotype"}, {"bwa", "applybqsr"} }

\* a validator variable (bwa_class, samsort_class, ...) that was never assigned
Unbound == <<>>

\* the first branch after branch i that is named in checks, 0 if none
NextBranch(checks, i) ==
    IF \E j \in (i + 1)..Len(Branches) : Branches[j] \in checks
    THEN CHOOSE j \in (i + 1)..Len(Branches) :
            /\ Branches[j] \in checks
            /\ \A k \in (i + 1)..(j - 1) : Branches[k] \notin checks
    ELSE 0

\* the next iteration of "for center in centers"
AfterCenter(d) ==
    IF d.center < MaxCenters
    THEN [d EXCEPT !.center = @ + 1, !.sample = 1, !.at = "listdir", !.branch = 0]
    ELSE [d EXCEPT !.at = "finished", !.branch = 0]

\* the next iteration of "for sample in os.listdir(...)"
AfterSample(d) ==
    IF d.sample < MaxSamples
    THEN [d EXCEPT !.sample = @ + 1, !.at = "gz", !.branch = 0]
    ELSE AfterCenter(d)

\* the next "if '<stage>' in checks" whose condition holds
AfterBranch(d) ==
    LET j == NextBranch(d.checks, d.branch)
    IN  IF j = 0 THEN AfterSample(d)
        ELSE [d EXCEPT !.at = "construct", !.branch = j]

\* except PermissionError: print('No permissions for ', center); continue
PermissionHandler(d) ==
    AfterCenter([d EXCEPT !.printed = @ \cup {<<"No permissions for", d.center>>},
                          !.failures = @ + 1])

\* a file system fault may still be met in this batch
MayFail(d) == d.failures < MaxFailures

notDriverVars ==
    <<stage, pc, result, log_file, row_idx, bools, global_flags, baserecalibrator,
      applybqsr, haplotype, featuremanager, progressmeter, warning,
      final_section, process, mem_pestat, mem_process_seqs, log_template,
      paired, dict_, dups, chr_count, chr_time, chr_reads, kwargs, failing,
      executed, raised>>

\* os.listdir of the center and of its study
Driver_listdir ==
    /\ driver.at = "listdir"
    /\ \/ driver' = [driver EXCEPT !.at = "gz", !.sample = 1]
       \/ /\ MayFail(driver)
          /\ driver' = PermissionHandler([driver EXCEPT !.denied = @ \cup {driver.center}])
    /\ UNCHANGED notDriverVars

\* samples = [... glob(path_parent + '/*.gz')][0], IndexError: continue
Driver_glob ==
    /\ driver.at = "gz"
    /\ \/ driver' = AfterBranch(driver)
       \/ /\ MayFail(driver)
          /\ driver' = AfterSample(
                [driver EXCEPT !.printed = @ \cup {<<"Cannot find .gz files", <<driver.center, driver.sample>>>>},
                               !.nogz = @ \cup {<<driver.center, driver.sample>>},
                               !.failures = @ + 1])
    /\ UNCHANGED notDriverVars

\* <stage>_class = <Stage>(path=..., sample=samples, ...)
Driver_construct ==
    /\ driver.at = "construct"
    /\ LET b == Branches[driver.branch]
           here == <<driver.center, driver.sample>>
       IN  \/ driver' = [driver EXCEPT !.classes[b] = here, !.at = "check"]
           \* the log is missing: open() raises FileNotFoundError
           \/ /\ MayFail(driver)
              /\ b # "fastqc"
              /\ driver' =
                    IF b \in Guarded
                    THEN [driver EXCEPT !.printed = @ \cup {<<"File not found", b, here>>},
                                        !.failures = @ + 1,
                                        !.at = "check"]
                    ELSE [driver EXCEPT !.error = [kind |-> "FileNotFoundError"],
                                        !.failures = @ + 1,
                                        !.at = "traceback"]
           \* the log is unreadable: open() raises PermissionError
           \/ /\ MayFail(driver)
              /\ b # "fastqc"
              /\ driver' = PermissionHandler(driver)
    /\ UNCHANGED notDriverVars

\* try: <stage>_class.check_log(...) except Exception: print(...)
Driver_check_log ==
    /\ driver.at = "check"
    /\ LET b == Branches[driver.branch]
           here == <<driver.center, driver.sample>>
           issue == <<"Issue with", b, here>>
           ended == [driver EXCEPT !.done = @ \cup {<<here, b>>}]
           call == [branch |-> b, sample |-> here, validator |-> driver.classes[b]]
       IN  IF driver.classes[b] = Unbound
           THEN \* NameError
                driver' = AfterBranch([ended EXCEPT !.printed = @ \cup {issue}])
           ELSE IF b = "baserecalibrator"
           THEN \* TypeError: check_log(self, title, score) got an unexpected keyword
                driver' = AfterBranch([ended EXCEPT !.printed = @ \cup {issue}])
           ELSE \/ driver' = AfterBranch([ended EXCEPT !.calls = @ \cup {call}])
                \/ /\ MayFail(driver)
                   /\ driver' = AfterBranch([ended EXCEPT !.calls = @ \cup {call},
                                                          !.printed = @ \cup {issue},
                                                          !.failures = @ + 1])
    /\ UNCHANGED notDriverVars

InitDriver ==
    /\ \E checks \in ChecksChoices :
          driver = [checks |-> checks, center |-> 1, sample |-> 1, at |-> "listdir",
                    branch |-> 0, classes |-> [b \in Range(Branches) |-> Unbound],
                    printed |-> {}, denied |-> {}, nogz |-> {}, done |-> {},
                    calls |-> {}, failures |-> 0, error |-> NoError]
    /\ stage = None
    /\ pc = "ready"
    /\ dict_ = None
    /\ log_file = <<>>
    /\ row_idx = 0
    /\ bools = NoBools
    /\ EmptySections
    /\ log_template = <<>>
    /\ paired = FALSE
    /\ dups = None
    /\ chr_count = <<>>
    /\ chr_time = <<>>
    /\ chr_reads = <<>>
    /\ kwargs = {}
    /\ failing = {}
    /\ executed = <<>>
    /\ raised = NoError
    /\ result = None

NextDriver ==
    \/ Driver_listdir
    \/ Driver_glob
    \/ Driver_construct
    \/ Driver_check_log

SpecDriver == InitDriver /\ [][NextDriver]_vars

\* the driver has left the loop over the centers
Terminated == driver.at \in {"finished", "traceback"}

\* C23 (as stated): whatever logs are missing or unreadable and whatever
\* checks fail, the batch is not aborted: when the driver stops it has
\* reached the end of the loop, and for every sample that was listed and has
\* its .gz files every stage named in --checks was taken to its check_log.
C23_FailureNeverAbortsTheBatch ==
    Terminated =>
        /\ driver.at = "finished"
        /\ \A c \in (1..MaxCenters) \ driver.denied : \A s \in 1..MaxSamples :
              <<c, s>> \notin driver.nogz =>
                 \A b \in driver.checks : <<<<c, s>>, b>> \in driver.done

\* C30 (as stated): every check_log that the driver runs is run on a
\* validator that was constructed for the sample of the current iteration.
C30_CheckLogRunsOnTheCurrentSample ==
    \A call \in driver.calls : call.validator = call.sample

====
